---- MODULE Spec2Model ----
(***************************************************************************)
(* launchlens: the scoring engine (lib/market-analyzer.js), the market     *)
(* signal analyses with their cache, and the validation flows of           *)
(* lib/validator.js.                                                       *)
(*                                                                         *)
(* Text is a sequence of one-character strings.  A JavaScript number that  *)
(* comes out of parseFloat is kept as an exact decimal m * 10^e (or NaN);  *)
(* the weighted score is computed in IEEE-754 double arithmetic, a double  *)
(* x >= 0 being held as the natural number x * 2^54 in three limbs of 20   *)
(* bits, so that the rounding of every product and sum is the machine's.   *)
(***************************************************************************)
EXTENDS Integers, Sequences, FiniteSets, TLC

VARIABLES
  scorePc, scoreIn, scoreOut,   \* calculateMarketScore applied to an input
  parsePc, parseIn, parseOut,   \* parseMarketValue applied to a text
  envPerplexity,                \* process.env.PERPLEXITY_API_KEY is set
  now,                          \* Date.now(), in days
  marketCache,                  \* market-analyzer.js: marketCache
  ms, pain, qual,               \* the calls of the three analyses
  sigCalls, sigPrev, lastFetch, \* history of the direct calls
  storedPerplexity,             \* keys.enc holds a Perplexity key
  openaiKey,                    \* config.getOpenAIKey() returns a key
  competitorCache,              \* validator.js: competitorCache
  req,                          \* the validation request being served
  fc,                           \* its calls of findCompetitors
  llm,                          \* its call of the OpenAI client
  scores,                       \* what calculateMarketScore returned
  result,                       \* what the request returned
  reqCount,                     \* requests started so far
  roastMode,                    \* the command line has --roast
  rs,                           \* researchCompetitorsWithPerplexity at work
  pd,                           \* a function of the research server applied to an input
  cli                           \* one run of cli.js: main at work

pureVars == <<scorePc, scoreIn, scoreOut, parsePc, parseIn, parseOut>>

sigVars ==
  <<envPerplexity, now, marketCache, ms, pain, qual, sigCalls, sigPrev,
    lastFetch>>

mainVars ==
  <<storedPerplexity, openaiKey, competitorCache, req, fc, llm, scores, result,
    reqCount>>

toolVars == <<roastMode, rs, pd, cli>>

vars ==
  <<scorePc, scoreIn, scoreOut, parsePc, parseIn, parseOut, envPerplexity, now,
    marketCache, ms, pain, qual, sigCalls, sigPrev, lastFetch,
    storedPerplexity, openaiKey, competitorCache, req, fc, llm, scores, result,
    reqCount, roastMode, rs, pd, cli>>

(***************************************************************************)
(* Bounds of the model.                                                    *)
(***************************************************************************)
MaxCompetitors == 15
MaxStrLen == 5
MaxDays == 6
MaxStaleDays == 7
MaxSignalCalls == 2
MaxRequests == 2
MaxRequestDays == 2
MaxDetailedRequests == 1
MaxReplyLines == 6
MaxNameLen == 4
MaxItems == 5
MaxUserNames == 7
MaxWeakCompetitors == 3

(***************************************************************************)
(* Characters and text helpers.                                            *)
(***************************************************************************)
Digits == {"0", "1", "2", "3", "4", "5", "6", "7", "8", "9"}

DigitVal(c) ==
  CASE c = "0" -> 0 [] c = "1" -> 1 [] c = "2" -> 2 [] c = "3" -> 3
    [] c = "4" -> 4 [] c = "5" -> 5 [] c = "6" -> 6 [] c = "7" -> 7
    [] c = "8" -> 8 [] c = "9" -> 9

DigitDot == Digits \cup {"."}

Spaces == {" "}

Units == {"B", "b", "M", "m", "T", "t"}

toLowerCase(c) ==
  CASE c = "B" -> "b" [] c = "M" -> "m" [] c = "T" -> "t" [] c = "A" -> "a"
    [] c = "I" -> "i" [] c = "P" -> "p" [] c = "U" -> "u" [] c = "S" -> "s"
    [] c = "D" -> "d" [] OTHER -> c

toLowerCaseText(s) == [i \in 1..Len(s) |-> toLowerCase(s[i])]

Unknown == <<"U", "n", "k", "n", "o", "w", "n">>

RECURSIVE SkipWhile(_, _, _)
SkipWhile(s, i, set) ==
  IF i <= Len(s) /\ s[i] \in set THEN SkipWhile(s, i + 1, set) ELSE i

RECURSIVE SkipBack(_, _, _)
SkipBack(s, i, set) ==
  IF i >= 1 /\ s[i] \in set THEN SkipBack(s, i - 1, set) ELSE i

trim(s) == SubSeq(s, SkipWhile(s, 1, Spaces), SkipBack(s, Len(s), Spaces))

\* replace(/\s+/g, ' ')
RECURSIVE collapseSpaces(_)
collapseSpaces(s) ==
  IF Len(s) <= 1 THEN s
  ELSE IF s[1] \in Spaces /\ s[2] \in Spaces THEN collapseSpaces(Tail(s))
  ELSE <<s[1]>> \o collapseSpaces(Tail(s))

RECURSIVE Pow10(_)
Pow10(n) == IF n <= 0 THEN 1 ELSE 10 * Pow10(n - 1)

RECURSIVE Pow2(_)
Pow2(n) == IF n <= 0 THEN 1 ELSE 2 * Pow2(n - 1)

SetMin(S) == CHOOSE x \in S : \A y \in S : x <= y

(***************************************************************************)
(* Exact decimals: [nan, m, e] stands for m * 10^e, with m not divisible   *)
(* by 10 (and e = 0 when m = 0), so that equal numbers are equal records.  *)
(***************************************************************************)
NaN == [nan |-> TRUE, m |-> 0, e |-> 0]

RECURSIVE Dec(_, _)
Dec(m, e) ==
  IF m = 0 THEN [nan |-> FALSE, m |-> 0, e |-> 0]
  ELSE IF m % 10 = 0 THEN Dec(m \div 10, e + 1)
  ELSE [nan |-> FALSE, m |-> m, e |-> e]

DecTimesPow10(d, k) == IF d.nan THEN NaN ELSE Dec(d.m, d.e + k)

\* d > k and d < k for a natural number k; every comparison with NaN is false
DecGt(d, k) ==
  /\ ~d.nan
  /\ IF d.e >= 0
       THEN IF d.e > 9 THEN d.m > 0 ELSE d.m > k \div Pow10(d.e)
       ELSE d.m > k * Pow10(-d.e)

DecLt(d, k) ==
  /\ ~d.nan
  /\ IF d.e >= 0
       THEN IF d.e > 9 THEN FALSE ELSE d.m < (k + Pow10(d.e) - 1) \div Pow10(d.e)
       ELSE d.m < k * Pow10(-d.e)

RECURSIVE DigitsValue(_, _, _)
DigitsValue(s, i, j) ==
  IF i > j THEN 0 ELSE 10 * DigitsValue(s, i, j - 1) + DigitVal(s[j])

\* parseFloat on text: the longest prefix digits [ "." digits ]; NaN when that
\* prefix holds no digit
parseFloat(s) ==
  LET a == SkipWhile(s, 1, Digits)
      b == IF a <= Len(s) /\ s[a] = "." THEN SkipWhile(s, a + 1, Digits) ELSE a
      nInt == a - 1
      nFrac == IF b > a THEN b - a - 1 ELSE 0
  IN  IF nInt + nFrac = 0 THEN NaN
      ELSE Dec(DigitsValue(s, 1, nInt) * Pow10(nFrac)
                 + DigitsValue(s, a + 1, a + nFrac), -nFrac)

(***************************************************************************)
(* parseMarketValue: /\$([\d.]+)\s*([BbMmTt])/, leftmost match.  Both      *)
(* quantifiers are greedy and what follows each of them cannot start with  *)
(* a character of its own class, so the match at a "$" takes the maximal   *)
(* runs.                                                                   *)
(***************************************************************************)
MarketMatchAt(s, i) ==
  /\ s[i] = "$"
  /\ LET j == SkipWhile(s, i + 1, DigitDot)
         k == SkipWhile(s, j, Spaces)
     IN  j > i + 1 /\ k <= Len(s) /\ s[k] \in Units

parseMarketValue(marketStr) ==
  LET hits == {i \in 1..Len(marketStr) : MarketMatchAt(marketStr, i)}
  IN  IF hits = {} THEN Dec(0, 0)
      ELSE LET i == SetMin(hits)
               j == SkipWhile(marketStr, i + 1, DigitDot)
               k == SkipWhile(marketStr, j, Spaces)
               value == parseFloat(SubSeq(marketStr, i + 1, j - 1))
               unit == toLowerCase(marketStr[k])
           IN  IF unit = "t" THEN DecTimesPow10(value, 6)
               ELSE IF unit = "b" THEN DecTimesPow10(value, 3)
               ELSE value

(***************************************************************************)
(* IEEE-754 doubles in [0, 2^9): x is held as x * 2^54 = <<hi, mid, lo>>,  *)
(* hi * 2^40 + mid * 2^20 + lo.                                            *)
(***************************************************************************)
Limb == 1048576

BigNorm(hi, mid, lo) ==
  LET m2 == mid + lo \div Limb
  IN  <<hi + m2 \div Limb, m2 % Limb, lo % Limb>>

BigAdd(x, y) == BigNorm(x[1] + y[1], x[2] + y[2], x[3] + y[3])

BigTimes(x, k) == BigNorm(x[1] * k, x[2] * k, x[3] * k)

RECURSIVE BitLen(_)
BitLen(n) == IF n = 0 THEN 0 ELSE 1 + BitLen(n \div 2)

\* round to 53 significant bits, ties to even
RoundDouble(x) ==
  LET s == BitLen(x[1]) - 13
  IN  IF s <= 0 THEN x
      ELSE LET p == Pow2(s)
               r == x[3] % p
               q == x[3] \div p
               up == r * 2 > p \/ (r * 2 = p /\ q % 2 = 1)
           IN  BigNorm(x[1], x[2], x[3] - r + (IF up THEN p ELSE 0))

\* the doubles nearest 0.4 and 0.3: 0x1999999999999A and 0x13333333333333
\* times 2^-54
Double04 == <<6553, 629145, 629146>>

Double03 == <<4915, 209715, 209715>>

FMul(x, k) == RoundDouble(BigTimes(x, k))

FAdd(x, y) == RoundDouble(BigAdd(x, y))

\* x >= k for a natural number k
FGeq(x, k) == x[1] >= k * 16384

\* Math.round: floor(x + 0.5)
MathRound(x) == (x[1] + 8192) \div 16384

(***************************************************************************)
(* calculateMarketScore.  overall is reported in tenths (overall * 10), an *)
(* integer, as Math.round(weightedScore * 10) is.  competitorData is the   *)
(* value passed as second argument: its length and, when it has one, its   *)
(* marketConcentration property ("undefined" when it has none).            *)
(***************************************************************************)
MaxScore == 10

Min(a, b) == IF a <= b THEN a ELSE b

Max(a, b) == IF a >= b THEN a ELSE b

SizeTier(marketSize) ==
  IF marketSize # Unknown
    THEN LET sizeValue == parseMarketValue(marketSize)
         IN  IF DecGt(sizeValue, 10000) THEN 10
             ELSE IF DecGt(sizeValue, 1000) THEN 8
             ELSE IF DecGt(sizeValue, 100) THEN 6
             ELSE IF DecGt(sizeValue, 10) THEN 4
             ELSE 2
    ELSE 5

\* GrowthAdjust without the cap of the two raises
GrowthAdjustUncapped(score, growthRate) ==
  IF growthRate # Unknown
    THEN LET growth == parseFloat(growthRate)
         IN  IF DecGt(growth, 30) THEN score + 2
             ELSE IF DecGt(growth, 15) THEN score + 1
             ELSE IF DecLt(growth, 5) THEN Max(1, score - 2)
             ELSE score
    ELSE score

GrowthAdjust(score, growthRate) ==
  IF growthRate # Unknown
    THEN LET growth == parseFloat(growthRate)
         IN  IF DecGt(growth, 30) THEN Min(MaxScore, score + 2)
             ELSE IF DecGt(growth, 15) THEN Min(MaxScore, score + 1)
             ELSE IF DecLt(growth, 5) THEN Max(1, score - 2)
             ELSE score
    ELSE score

MarketOpportunityScore(marketData) ==
  GrowthAdjust(SizeTier(marketData.marketSize), marketData.growthRate)

\* CompetitionScore with the upper edge of the best band one too low
CompetitionScoreNarrowBand(competitorCount) ==
  IF competitorCount = 0 THEN 3
  ELSE IF competitorCount <= 2 THEN 5
  ELSE IF competitorCount < 5 THEN 8
  ELSE IF competitorCount <= 10 THEN 6
  ELSE 3

CompetitionScore(competitorCount) ==
  IF competitorCount = 0 THEN 3
  ELSE IF competitorCount <= 2 THEN 5
  ELSE IF competitorCount <= 5 THEN 8
  ELSE IF competitorCount <= 10 THEN 6
  ELSE 3

EntryFeasibilityScore(painLevel, marketConcentration) ==
  LET base == IF painLevel # 0 THEN painLevel ELSE 5
  IN  IF marketConcentration = "Highly concentrated" THEN Max(1, base - 3)
      ELSE IF marketConcentration = "Fragmented" THEN Min(MaxScore, base + 2)
      ELSE base

WeightedScore(mo, co, ef) ==
  FAdd(FAdd(FMul(Double04, mo), FMul(Double03, co)), FMul(Double03, ef))

Overall10(weightedScore) == MathRound(FMul(weightedScore, 10))

Verdict(weightedScore) ==
  IF FGeq(weightedScore, 7) THEN "YES"
  ELSE IF FGeq(weightedScore, 4) THEN "MAYBE"
  ELSE "NO"

calculateMarketScore(marketData, competitorData, painData) ==
  LET mo == MarketOpportunityScore(marketData)
      co == CompetitionScore(competitorData.length)
      ef == EntryFeasibilityScore(painData.painLevel,
                                  competitorData.marketConcentration)
      weightedScore == WeightedScore(mo, co, ef)
  IN  [overall10 |-> Overall10(weightedScore),
       marketOpportunity |-> mo,
       competition |-> co,
       entryFeasibility |-> ef,
       verdict |-> Verdict(weightedScore)]

NoScores ==
  [overall10 |-> 0, marketOpportunity |-> 0, competition |-> 0,
   entryFeasibility |-> 0, verdict |-> "none"]

(***************************************************************************)
(* extractMarketSize: six patterns with the flag i, tried in their order;  *)
(* the first that matches gives its whole match (match[0]), at its         *)
(* leftmost place.  As in parseMarketValue the runs of [\d.] and of \s are  *)
(* maximal.  The lazy .*? of the last three patterns stops at the first    *)
(* amount that follows the word; the texts hold no line break.             *)
(***************************************************************************)
Illion == <<"i", "l", "l", "i", "o", "n">>

WordUsd == <<"u", "s", "d">>

WordMarket == <<"m", "a", "r", "k", "e", "t">>

WordTam == <<"t", "a", "m">>

WordValuedAt == <<"v", "a", "l", "u", "e", "d", " ", "a", "t">>

UnitsBM == {"B", "b", "M", "m"}

\* the word w, written in lower case, stands at s[i..] in whatever case
IsWordAt(s, i, w) ==
  /\ i + Len(w) - 1 <= Len(s)
  /\ \A k \in 1..Len(w) : toLowerCase(s[i + k - 1]) = w[k]

\* [\d.]+\s*[units] from s[i] on: the place of the unit, 0 without a match
AmountEnd(s, i, units) ==
  LET j == SkipWhile(s, i, DigitDot)
      k == SkipWhile(s, j, Spaces)
  IN  IF j > i /\ k <= Len(s) /\ s[k] \in units THEN k ELSE 0

\* \$[\d.]+\s*[units] from s[i] on
DollarEnd(s, i, units) ==
  IF i <= Len(s) /\ s[i] = "$" THEN AmountEnd(s, i + 1, units) ELSE 0

\* the amount followed by "illion"
IllionEnd(s, e) == IF e > 0 /\ IsWordAt(s, e + 1, Illion) THEN e + 6 ELSE 0

\* word.*?(\$[\d.]+\s*[BbMm]) from s[i] on
WordThenDollarEnd(s, i, w) ==
  IF ~IsWordAt(s, i, w) THEN 0
  ELSE LET at == {j \in (i + Len(w))..Len(s) : DollarEnd(s, j, UnitsBM) > 0}
       IN  IF at = {} THEN 0 ELSE DollarEnd(s, SetMin(at), UnitsBM)

\* where the match of pattern p that starts at s[i] ends, 0 without a match
PatternEnd(p, s, i) ==
  CASE p = 1 -> IllionEnd(s, DollarEnd(s, i, UnitsBM))
    [] p = 2 -> DollarEnd(s, i, Units)
    [] p = 3 -> IF IsWordAt(s, i, WordUsd)
                  THEN IllionEnd(s, AmountEnd(s, SkipWhile(s, i + 3, Spaces),
                                              UnitsBM))
                  ELSE 0
    [] p = 4 -> WordThenDollarEnd(s, i, WordMarket)
    [] p = 5 -> WordThenDollarEnd(s, i, WordTam)
    [] p = 6 -> WordThenDollarEnd(s, i, WordValuedAt)

PatternStarts(p, s) == {i \in 1..Len(s) : PatternEnd(p, s, i) > 0}

MatchingPatterns(text) == {p \in 1..6 : PatternStarts(p, text) # {}}

extractMarketSize(text) ==
  IF MatchingPatterns(text) = {} THEN Unknown
  ELSE LET p == SetMin(MatchingPatterns(text))
           i == SetMin(PatternStarts(p, text))
       IN  SubSeq(text, i, PatternEnd(p, text, i))

(***************************************************************************)
(* Inputs of the scoring engine: what extractMarketSize, extractGrowthRate,*)
(* calculatePainLevel and extractConcentration can hand to it.             *)
(***************************************************************************)
MarketSizes ==
  {Unknown, <<"$", "5", "M">>, <<"$", "5", "0", "M">>,
   <<"$", "5", "0", "0", " ", "m">>, <<"$", "1", ".", "5", "B">>,
   <<"$", "2", "T">>, <<"$", ".", " ", "M">>}

GrowthRates ==
  {Unknown, <<"2", "%">>, <<"5", "%">>, <<"1", "6", ".", "5", "%">>,
   <<"3", "1", "%">>}

Concentrations ==
  {"undefined", "Highly concentrated", "Fragmented", "Moderately concentrated",
   "Unknown"}

PainLevels == 0..MaxScore

ScoreInputs ==
  [marketSize : MarketSizes, growthRate : GrowthRates,
   length : 0..MaxCompetitors, marketConcentration : Concentrations,
   painLevel : PainLevels]

NoScoreInput ==
  [marketSize |-> Unknown, growthRate |-> Unknown, length |-> 0,
   marketConcentration |-> "undefined", painLevel |-> 0]

ParseAlphabet == {"$", "1", "2", "5", ".", "B", "T", "m", " ", "g"}

ParseInputs == UNION {[1..n -> ParseAlphabet] : n \in 0..MaxStrLen}

(***************************************************************************)
(* MarketSignals: analyzeMarketSize, analyzeCustomerPain and               *)
(* analyzeCompetitorQuality.  Each runs up to its fetch in one step (Begin)*)
(* and handles the response in a second one (Settle).  A call is the       *)
(* record [st, how, outcome, idea, began, no, value]: st is "idle",        *)
(* "waiting" (the request is out), "returned" or "threw"; how tells which  *)
(* return was taken and outcome how the fetch ended.  A response body is   *)
(* described by what the extractors find in it.                            *)
(***************************************************************************)
MarketWindow == 7

PainWindow == 3

IdeaTodo == <<"A", "I", " ", "t", "o", "d", "o", " ", "a", "p", "p">>

IdeaTodoPadded == <<" ", "a", "i", " ", "t", "o", "d", "o", " ", "a", "p", "p">>

IdeaPet == <<"P", "e", "t", " ", "p", "h", "o", "t", "o", " ", "a", "p", "p">>

SignalIdeas == {IdeaTodoPadded, IdeaPet}

marketCacheKey(idea) == <<"market:">> \o trim(toLowerCaseText(idea))

painCacheKey(idea) == <<"pain:">> \o trim(toLowerCaseText(idea))

\* ideas of the validation requests: IdeaTodoWide differs from IdeaTodoPadded
\* in case, padding and inner white space; IdeaShort is too short and never
\* reaches a cache
IdeaTodoWide == <<"A", "I", " ", " ", "t", "o", "d", "o", " ", "a", "p", "p">>

IdeaShort == <<" ", " ", "t", "o", "d", "o", " ", "a", "p", "p", " ">>

\* no idea at all
IdeaMissing == <<>>

RequestIdeas == {IdeaTodoPadded, IdeaTodoWide, IdeaPet, IdeaShort, IdeaMissing}

\* the ideas submitted with --detailed
DetailedIdeas == SignalIdeas \cup {IdeaShort, IdeaMissing}

MarketCacheKeys ==
  {marketCacheKey(i) : i \in SignalIdeas} \cup {painCacheKey(i) : i \in SignalIdeas}

\* CacheFresh with the window one day short
CacheFreshShort(cached, window) ==
  cached # <<>> /\ cached[1].timestamp > now - window + 1

\* cached && cached.timestamp > Date.now() - window
CacheFresh(cached, window) ==
  cached # <<>> /\ cached[1].timestamp > now - window

NoValue == [none |-> TRUE]

CallIdle ==
  [st |-> "idle", how |-> "none", outcome |-> "none", idea |-> <<>>,
   began |-> 0, no |-> 0, value |-> NoValue]

CallReturned(how, idea, no, value) ==
  [st |-> "returned", how |-> how, outcome |-> "none", idea |-> idea,
   began |-> now, no |-> no, value |-> value]

CallWaiting(idea, no) ==
  [st |-> "waiting", how |-> "fetch", outcome |-> "none", idea |-> idea,
   began |-> now, no |-> no, value |-> NoValue]

\* the tone the prompts of the model ask for
PromptTone == IF roastMode THEN "sarcastic" ELSE "analytical"

\* the completion requested with the prompt of the mode
CallPrompted(idea, no) ==
  [st |-> "waiting", how |-> "fetch", outcome |-> "none", idea |-> idea,
   began |-> now, no |-> no, value |-> NoValue, tone |-> PromptTone]

\* how a fetch ends: rejected, answered with a non-2xx status, answered with a
\* body without choices[0].message.content, or answered with a content
FailureKinds == {"error", "non2xx", "malformed"}

Outcomes(contents) ==
  {[kind |-> k, content |-> NoValue] : k \in FailureKinds}
    \cup {[kind |-> "ok", content |-> c] : c \in contents}

MarketContents ==
  {[marketSize |-> <<"$", "1", ".", "5", "B">>, growthRate |-> <<"3", "1", "%">>,
    funding |-> "Unknown"],
   [marketSize |-> Unknown, growthRate |-> <<"2", "%">>,
    funding |-> "Bootstrapped"]}

MarketDefault ==
  [marketSize |-> Unknown, growthRate |-> Unknown, funding |-> "Unknown",
   confidence |-> "low", rawData |-> <<>>]

MarketResult(content) ==
  [marketSize |-> content.marketSize,
   growthRate |-> content.growthRate,
   funding |-> content.funding,
   confidence |-> IF content.marketSize # Unknown /\ content.growthRate # Unknown
                    THEN "high" ELSE "medium",
   rawData |-> <<content>>]

analyzeMarketSizeBegin(idea, no) ==
  LET cached == marketCache[marketCacheKey(idea)]
  IN  IF CacheFresh(cached, MarketWindow)
        THEN CallReturned("cache", idea, no, cached[1].data)
      ELSE IF ~envPerplexity
        THEN CallReturned("nokey", idea, no, MarketDefault)
      ELSE CallWaiting(idea, no)

\* analyzeMarketSizeSettle with the status check outside the try block
analyzeMarketSizeSettleUncaught(outcome) ==
  IF outcome.kind = "ok"
    THEN [threw |-> FALSE, value |-> MarketResult(outcome.content),
          store |-> TRUE]
    ELSE [threw |-> outcome.kind = "non2xx", value |-> MarketDefault,
          store |-> FALSE]

\* the response handler: [threw, value, store]
analyzeMarketSizeSettle(outcome) ==
  IF outcome.kind = "ok"
    THEN [threw |-> FALSE, value |-> MarketResult(outcome.content),
          store |-> TRUE]
    ELSE [threw |-> FALSE, value |-> MarketDefault, store |-> FALSE]

\* content of a pain reply: the number of distinct pain keywords it contains
\* and the number of its lines that pass the filter of extractUnmetNeeds
PainContents ==
  {[keywords |-> 0, needs |-> 0, searchVolume |-> "Unknown"],
   [keywords |-> 4, needs |-> 5, searchVolume |-> "10K"]}

calculatePainLevel(content) == Min(MaxScore, 5 + content.keywords)

extractUnmetNeeds(content) == [i \in 1..Min(3, content.needs) |-> i]

PainDefault ==
  [painLevel |-> 5, unmetNeeds |-> <<>>, searchVolume |-> "Unknown",
   rawData |-> <<>>]

PainResult(content) ==
  [painLevel |-> calculatePainLevel(content),
   unmetNeeds |-> extractUnmetNeeds(content),
   searchVolume |-> content.searchVolume,
   rawData |-> <<content>>]

analyzeCustomerPainBegin(idea, competitors, no) ==
  LET cached == marketCache[painCacheKey(idea)]
  IN  IF CacheFresh(cached, PainWindow)
        THEN CallReturned("cache", idea, no, cached[1].data)
      ELSE IF ~envPerplexity
        THEN CallReturned("nokey", idea, no, PainDefault)
      ELSE CallWaiting(idea, no)

\* analyzeCustomerPainSettle caching the default of a failed fetch
analyzeCustomerPainSettleStoringDefault(outcome) ==
  IF outcome.kind = "ok"
    THEN [threw |-> FALSE, value |-> PainResult(outcome.content),
          store |-> TRUE]
    ELSE [threw |-> FALSE, value |-> PainDefault, store |-> TRUE]

analyzeCustomerPainSettle(outcome) ==
  IF outcome.kind = "ok"
    THEN [threw |-> FALSE, value |-> PainResult(outcome.content),
          store |-> TRUE]
    ELSE [threw |-> FALSE, value |-> PainDefault, store |-> FALSE]

\* content of a quality reply: how many of the positive and of the negative
\* words it contains, and which concentration phrases
QualityContents ==
  {[positive |-> 1, negative |-> 0, phrases |-> {"dominant", "fragmented"},
    funding |-> "Unknown"],
   [positive |-> 0, negative |-> 6, phrases |-> {"many players"},
    funding |-> "Bootstrapped"]}

calculateSatisfaction(content) ==
  Max(1, Min(MaxScore, 5 + content.positive - content.negative))

extractConcentration(content) ==
  IF content.phrases \cap {"monopoly", "dominant"} # {}
    THEN "Highly concentrated"
  ELSE IF content.phrases \cap {"fragmented", "many players"} # {}
    THEN "Fragmented"
  ELSE IF content.phrases \cap {"few leaders", "oligopoly"} # {}
    THEN "Moderately concentrated"
  ELSE "Unknown"

QualityDefault ==
  [avgFunding |-> "Unknown", satisfaction |-> 5,
   marketConcentration |-> "Unknown", rawData |-> <<>>]

QualityResult(content) ==
  [avgFunding |-> content.funding,
   satisfaction |-> calculateSatisfaction(content),
   marketConcentration |-> extractConcentration(content),
   rawData |-> <<content>>]

\* the call keeps its competitor list in the field idea: it takes no idea
analyzeCompetitorQualityBegin(competitors, no) ==
  IF Len(competitors) = 0
    THEN CallReturned("empty", competitors, no, QualityDefault)
  ELSE IF ~envPerplexity
    THEN CallReturned("nokey", competitors, no, QualityDefault)
  ELSE CallWaiting(competitors, no)

analyzeCompetitorQualitySettle(outcome) ==
  IF outcome.kind = "ok"
    THEN [threw |-> FALSE, value |-> QualityResult(outcome.content),
          store |-> FALSE]
    ELSE [threw |-> FALSE, value |-> QualityDefault, store |-> FALSE]

Settled(call, outcome, r) ==
  [call EXCEPT !.st = IF r.threw THEN "threw" ELSE "returned",
               !.outcome = outcome.kind,
               !.value = r.value]

\* a set that keeps the timestamp of the entry it finds
CacheSetKeepingTimestamp(cache, key, data) ==
  [cache EXCEPT ![key] = <<[data |-> data,
                            timestamp |-> IF cache[key] = <<>> THEN now
                                          ELSE cache[key][1].timestamp]>>]

\* marketCache.set(cacheKey, {data: result, timestamp: Date.now()})
CacheSet(cache, key, data) ==
  [cache EXCEPT ![key] = <<[data |-> data, timestamp |-> now]>>]

(***************************************************************************)
(* Configuration (lib/config.js).  loadApiKeys takes the key of the        *)
(* environment and lets the one of keys.enc override it.                   *)
(***************************************************************************)
loadApiKeys == [perplexity |-> envPerplexity \/ storedPerplexity]

getPerplexityKey == loadApiKeys.perplexity \/ envPerplexity

getOpenAIKey == openaiKey

(***************************************************************************)
(* findCompetitors.  The content of a search reply is the number of its    *)
(* lines that yield a competitor (lines 65-83): long enough, no lead-in,   *)
(* a separator, a name under 50 characters.                                *)
(***************************************************************************)
CompetitorWindow == 1

CompetitorNames ==
  <<"Acme", "Bolt", "Cato", "Dune", "Echo", "Flux", "Gist", "Hive">>

SearchContents == {[lines |-> 0], [lines |-> 3], [lines |-> MaxReplyLines]}

\* a placeholder list of four entries in place of the two of lines 22-25
PlaceholderCompetitorsOfFour ==
  <<[name |-> "Existing Solution A"], [name |-> "Existing Solution B"],
    [name |-> "Existing Solution C"], [name |-> "Existing Solution D"]>>

PlaceholderCompetitors ==
  <<[name |-> "Existing Solution A"], [name |-> "Existing Solution B"]>>

FallbackCompetitors == <<[name |-> "Unknown Competitor"]>>

ParsedCompetitors(content) ==
  [i \in 1..content.lines |-> [name |-> CompetitorNames[i]]]

competitorCacheKey(idea) == collapseSpaces(trim(toLowerCaseText(idea)))

CompetitorCacheKeys == {competitorCacheKey(i) : i \in RequestIdeas}

Found(competitors) == [competitors |-> competitors]

\* findCompetitors without the look into competitorCache
findCompetitorsBeginUncached(idea, no) ==
  IF ~getPerplexityKey
    THEN CallReturned("nokey", idea, no, Found(PlaceholderCompetitors))
  ELSE CallWaiting(idea, no)

findCompetitorsBegin(idea, no) ==
  IF ~getPerplexityKey
    THEN CallReturned("nokey", idea, no, Found(PlaceholderCompetitors))
  ELSE IF CacheFresh(competitorCache[competitorCacheKey(idea)], CompetitorWindow)
    THEN CallReturned("cache", idea, no,
                      Found(competitorCache[competitorCacheKey(idea)][1].data))
  ELSE CallWaiting(idea, no)

\* findCompetitorsSettle without slice(0, 5)
findCompetitorsSettleUnsliced(outcome) ==
  IF outcome.kind = "ok"
    THEN [threw |-> FALSE, value |-> Found(ParsedCompetitors(outcome.content)),
          store |-> TRUE]
    ELSE [threw |-> FALSE, value |-> Found(FallbackCompetitors),
          store |-> FALSE]

findCompetitorsSettle(outcome) ==
  IF outcome.kind = "ok"
    THEN [threw |-> FALSE,
          value |-> Found(SubSeq(ParsedCompetitors(outcome.content), 1,
                                 Min(5, outcome.content.lines))),
          store |-> TRUE]
    ELSE [threw |-> FALSE, value |-> Found(FallbackCompetitors),
          store |-> FALSE]

\* the reply to the search of call fc[i]: what the call returns and the cache
SearchReply(i, outcome) ==
  LET r == findCompetitorsSettle(outcome)
  IN  [call |-> Settled(fc[i], outcome, r),
       cache |-> IF r.store
                   THEN CacheSet(competitorCache,
                                 competitorCacheKey(fc[i].idea),
                                 r.value.competitors)
                   ELSE competitorCache]

(***************************************************************************)
(* makeDecision.  A reply of the model is a failed call, a text that is no *)
(* JSON (with or without "yes" in quotes), or JSON: null, or an object     *)
(* with or without a verdict.                                              *)
(***************************************************************************)
SimpleReplies ==
  {[kind |-> "fail", fence |-> "none", hasYes |-> FALSE,
    hasVerdictYes |-> FALSE, verdict |-> "none"],
   [kind |-> "nocontent", fence |-> "none", hasYes |-> FALSE,
    hasVerdictYes |-> FALSE, verdict |-> "none"],
   [kind |-> "prose", fence |-> "none", hasYes |-> FALSE,
    hasVerdictYes |-> FALSE, verdict |-> "none"],
   [kind |-> "prose", fence |-> "none", hasYes |-> TRUE,
    hasVerdictYes |-> FALSE, verdict |-> "none"],
   [kind |-> "prose", fence |-> "none", hasYes |-> FALSE,
    hasVerdictYes |-> TRUE, verdict |-> "none"],
   [kind |-> "jsonnull", fence |-> "none", hasYes |-> FALSE,
    hasVerdictYes |-> FALSE, verdict |-> "none"],
   [kind |-> "json", fence |-> "none", hasYes |-> FALSE,
    hasVerdictYes |-> FALSE, verdict |-> "undefined"],
   [kind |-> "json", fence |-> "json fence", hasYes |-> TRUE,
    hasVerdictYes |-> TRUE, verdict |-> "YES"],
   [kind |-> "json", fence |-> "bare fence", hasYes |-> FALSE,
    hasVerdictYes |-> FALSE, verdict |-> "NO"]}

\* the fences are removed before JSON.parse
cleanedResponse(reply) ==
  IF reply.fence \in {"json fence", "bare fence"} THEN [reply EXCEPT !.fence = "none"]
  ELSE reply

\* JSON.parse(cleanedResponse) does not throw
Parses(cleaned) ==
  cleaned.kind \in {"json", "jsonnull"} /\ cleaned.fence = "none"

OfflineReasonsNo ==
  <<"Market is saturated with existing solutions",
    "Difficult to differentiate from competitors",
    "High customer acquisition cost likely">>

OfflineReasonsMaybe ==
  <<"Market may have room for innovation",
    "Fewer competitors could mean opportunity",
    "Need more research to validate demand">>

OfflineAlternativesNo ==
  <<"Focus on one specific underserved segment like freelancers or students",
    "Build an integration for existing tools instead of standalone product",
    "Target a specific industry vertical with unique requirements">>

OfflineAlternativesMaybe ==
  <<"Start with a landing page and get 100 email signups first",
    "Interview 20 potential customers to validate the problem exists",
    "Build a simple MVP and test with 10 beta users">>

\* makeDecisionOffline with competitors.length >= 3
makeDecisionOfflineFromThree(competitors) ==
  LET hasCompetitors == Len(competitors) >= 3
  IN  [null |-> FALSE,
       verdict |-> IF hasCompetitors THEN "NO" ELSE "MAYBE",
       reasons |-> IF hasCompetitors THEN "saturated" ELSE "room",
       reasonList |-> IF hasCompetitors THEN OfflineReasonsNo
                      ELSE OfflineReasonsMaybe,
       alternatives |-> IF hasCompetitors THEN OfflineAlternativesNo
                        ELSE OfflineAlternativesMaybe]

\* the branch taken when getOpenAIClient throws
makeDecisionOffline(competitors) ==
  LET hasCompetitors == Len(competitors) > 3
  IN  [null |-> FALSE,
       verdict |-> IF hasCompetitors THEN "NO" ELSE "MAYBE",
       reasons |-> IF hasCompetitors THEN "saturated" ELSE "room",
       reasonList |-> IF hasCompetitors THEN OfflineReasonsNo
                      ELSE OfflineReasonsMaybe,
       alternatives |-> IF hasCompetitors THEN OfflineAlternativesNo
                        ELSE OfflineAlternativesMaybe]

\* the outer catch of makeDecision
DecisionUnclear ==
  [null |-> FALSE, verdict |-> "UNCLEAR", reasons |-> "unable",
   reasonList |-> <<"Unable to make clear determination",
                    "More information needed",
                    "Consider validating with customers">>,
   alternatives |-> <<"Start with customer interviews before building",
                      "Create a landing page to test market interest",
                      "Join relevant communities to understand the problem better">>]

\* the catch of JSON.parse
DecisionSniffed(reply) ==
  LET isYes == reply.hasYes \/ reply.hasVerdictYes
  IN  [null |-> FALSE, verdict |-> IF isYes THEN "YES" ELSE "NO",
       reasons |-> "complete",
       reasonList |-> <<"Market analysis complete",
                        "Competition level assessed",
                        "Viability determined">>,
       alternatives |-> IF isYes THEN <<>>
                        ELSE <<"Refine your idea to be more specific",
                               "Focus on a particular niche or user segment",
                               "Consider building a simpler MVP first">>]

\* makeDecisionSettle that lets the failure of the call through
makeDecisionSettleUncaught(reply) ==
  IF reply.kind \in {"fail", "nocontent"}
    THEN [null |-> TRUE, verdict |-> "none", reasons |-> "none",
          reasonList |-> <<>>, alternatives |-> <<>>]
  ELSE IF ~Parses(cleanedResponse(reply))
    THEN DecisionSniffed(reply)
  ELSE IF reply.kind = "jsonnull"
    THEN [null |-> TRUE, verdict |-> "none", reasons |-> "none",
          reasonList |-> <<>>, alternatives |-> <<>>]
  ELSE [null |-> FALSE, verdict |-> reply.verdict, reasons |-> "reply",
        reasonList |-> <<"reply">>, alternatives |-> <<>>]

makeDecisionSettle(reply) ==
  IF reply.kind \in {"fail", "nocontent"}
    THEN DecisionUnclear
  ELSE IF ~Parses(cleanedResponse(reply))
    THEN DecisionSniffed(reply)
  ELSE IF reply.kind = "jsonnull"
    THEN [null |-> TRUE, verdict |-> "none", reasons |-> "none",
          reasonList |-> <<>>, alternatives |-> <<>>]
  ELSE [null |-> FALSE, verdict |-> reply.verdict, reasons |-> "reply",
        reasonList |-> <<"reply">>, alternatives |-> <<>>]

(***************************************************************************)
(* validateIdea.                                                           *)
(***************************************************************************)
\* idea.trim().length < 10 without the trim
IsValidIdeaUntrimmed(idea) == Len(idea) # 0 /\ Len(idea) >= 10

IsValidIdea(idea) == Len(idea) # 0 /\ Len(trim(idea)) >= 10

NoRequest == [st |-> "idle", idea |-> <<>>, detailed |-> FALSE]

Request(st, idea, detailed) ==
  [st |-> st, idea |-> idea, detailed |-> detailed]

NoResult ==
  [st |-> "none", decision |-> "none", reasons |-> "none",
   competitors |-> <<>>, detail |-> NoValue]

Threw(error) ==
  [st |-> "threw", decision |-> "none", reasons |-> error,
   competitors |-> <<>>, detail |-> NoValue]

\* decision.verdict of a null decision is a TypeError
validateIdeaReturn(decision, competitors) ==
  IF decision.null
    THEN Threw("TypeError")
    ELSE [st |-> "returned", decision |-> decision.verdict,
          reasons |-> decision.reasons, competitors |-> competitors,
          detail |-> NoValue]

MainIdle ==
  /\ competitorCache = [k \in CompetitorCacheKeys |-> <<>>]
  /\ req = NoRequest
  /\ fc = [i \in 1..3 |-> CallIdle]
  /\ llm = CallIdle
  /\ scores = NoScores
  /\ result = NoResult
  /\ reqCount = 0

CanStart == req.st \in {"idle", "done"} /\ reqCount < MaxRequests

\* makeDecision up to its await, and the return if it does not wait
validateIdeaDecide(idea, no, competitors) ==
  IF ~getOpenAIKey
    THEN /\ llm' = CallReturned("nokey", idea, no,
                                makeDecisionOffline(competitors))
         /\ result' = validateIdeaReturn(makeDecisionOffline(competitors),
                                         competitors)
         /\ req' = Request("done", idea, FALSE)
    ELSE /\ llm' = CallPrompted(idea, no)
         /\ result' = NoResult
         /\ req' = Request("running", idea, FALSE)

RequestFrame ==
  /\ UNCHANGED <<storedPerplexity, openaiKey, envPerplexity, now, sigCalls,
                 sigPrev, lastFetch>>
  /\ UNCHANGED pureVars
  /\ UNCHANGED toolVars

validateIdea ==
  /\ CanStart
  /\ reqCount' = reqCount + 1
  /\ \E idea \in RequestIdeas :
       IF ~IsValidIdea(idea)
         THEN /\ req' = Request("done", idea, FALSE)
              /\ result' = Threw("validation")
              /\ fc' = [i \in 1..3 |-> CallIdle]
              /\ llm' = CallIdle
         ELSE LET c == findCompetitorsBegin(idea, reqCount + 1)
              IN  /\ fc' = [i \in 1..3 |-> IF i = 1 THEN c ELSE CallIdle]
                  /\ IF c.st = "returned"
                       THEN validateIdeaDecide(idea, reqCount + 1,
                                               c.value.competitors)
                       ELSE /\ req' = Request("running", idea, FALSE)
                            /\ llm' = CallIdle
                            /\ result' = NoResult
  /\ UNCHANGED <<competitorCache, scores, marketCache, ms, pain, qual>>
  /\ RequestFrame

\* the search of validateIdea is answered
SearchReplied ==
  /\ ~req.detailed
  /\ fc[1].st = "waiting"
  /\ \E outcome \in Outcomes(SearchContents) :
       LET s == SearchReply(1, outcome)
       IN  /\ fc' = [fc EXCEPT ![1] = s.call]
           /\ competitorCache' = s.cache
           /\ validateIdeaDecide(req.idea, reqCount,
                                 s.call.value.competitors)
  /\ UNCHANGED <<reqCount, scores, marketCache, ms, pain, qual>>
  /\ RequestFrame

\* the model answers makeDecision
DecisionReplied ==
  /\ ~req.detailed
  /\ llm.st = "waiting"
  /\ \E reply \in SimpleReplies :
       LET d == makeDecisionSettle(reply)
       IN  /\ llm' = [st |-> "returned", how |-> llm.how,
                       outcome |-> reply.kind, idea |-> llm.idea,
                       began |-> llm.began, no |-> llm.no, value |-> d,
                       tone |-> llm.tone, reply |-> reply]
           /\ result' = validateIdeaReturn(d, fc[1].value.competitors)
  /\ req' = [req EXCEPT !.st = "done"]
  /\ UNCHANGED <<reqCount, fc, competitorCache, scores, marketCache, ms, pain,
                 qual>>
  /\ RequestFrame

(***************************************************************************)
(* validateIdeaDetailed.  A reply of the model to makeDetailedDecision is  *)
(* a failed call, a text that is no JSON, or JSON: null, or an object      *)
(* with or without a verdict of its own.                                   *)
(***************************************************************************)
DetailedReplies ==
  {[kind |-> "fail", verdict |-> "none"],
   [kind |-> "prose", verdict |-> "none"],
   [kind |-> "jsonnull", verdict |-> "none"],
   [kind |-> "json", verdict |-> "undefined"],
   [kind |-> "json", verdict |-> "YES"],
   [kind |-> "json", verdict |-> "NO"]}

\* the error of getOpenAIClient thrown on instead of answered from the scores
makeDetailedDecisionOfflineThrown(sc) ==
  [null |-> TRUE, verdict |-> "none", reasons |-> "none"]

\* the branch taken when getOpenAIClient throws
makeDetailedDecisionOffline(sc) ==
  [null |-> FALSE, verdict |-> sc.verdict, reasons |-> "scores"]

makeDetailedDecisionSettle(reply, sc) ==
  IF reply.kind = "fail"
    THEN [null |-> FALSE, verdict |-> "undefined", reasons |-> "scoring shows"]
  ELSE IF reply.kind = "prose"
    THEN [null |-> FALSE, verdict |-> "undefined", reasons |-> "scores"]
  ELSE IF reply.kind = "jsonnull"
    THEN [null |-> TRUE, verdict |-> "none", reasons |-> "none"]
  ELSE [null |-> FALSE, verdict |-> reply.verdict, reasons |-> "reply"]

\* the decision field, were it taken from the reply of the model when it has
\* a verdict
DetailedDecisionFromReply(sc, enhancedDecision) ==
  IF enhancedDecision.verdict \in {"YES", "NO", "MAYBE"}
    THEN enhancedDecision.verdict
    ELSE sc.verdict

DetailedDecision(sc, enhancedDecision) == sc.verdict

\* enhancedDecision.reasons of a null decision is a TypeError
validateIdeaDetailedReturn(sc, enhancedDecision, competitors, painData, competitorQuality) ==
  IF enhancedDecision.null
    THEN Threw("TypeError")
    ELSE [st |-> "returned",
          decision |-> DetailedDecision(sc, enhancedDecision),
          reasons |-> enhancedDecision.reasons,
          competitors |-> competitors,
          detail |-> [scores |-> sc,
                      painLevel |-> painData.painLevel,
                      count |-> Len(competitors),
                      quality |-> competitorQuality.satisfaction,
                      concentration |-> competitorQuality.marketConcentration]]

\* the competitors array handed to calculateMarketScore as competitorData:
\* an array has a length and no marketConcentration
AsCompetitorData(competitors) ==
  [length |-> Len(competitors), marketConcentration |-> "undefined"]

\* the scores, were they lowered to a NO under --roast
DetailedScoresRoasted(marketData, competitors, painData) ==
  LET sc == calculateMarketScore(marketData, AsCompetitorData(competitors),
                                 painData)
  IN  IF roastMode THEN [sc EXCEPT !.verdict = "NO"] ELSE sc

\* calculateMarketScore(marketData, competitors, painData)
DetailedScores(marketData, competitors, painData) ==
  calculateMarketScore(marketData, AsCompetitorData(competitors), painData)

\* what follows Promise.all once its four promises are resolved: the scores,
\* makeDetailedDecision up to its await, and the return if it does not wait
DetailedJoin(idea, no, f, m, p, q) ==
  IF f[1].st = "returned" /\ m.st = "returned" /\ p.st = "returned"
     /\ q.st = "returned"
    THEN LET competitors == f[1].value.competitors
         IN  /\ scores' = DetailedScores(m.value, competitors, p.value)
             /\ IF ~getOpenAIKey
                  THEN /\ llm' = CallReturned(
                                   "nokey", idea, no,
                                   makeDetailedDecisionOffline(scores'))
                       /\ result' = validateIdeaDetailedReturn(
                                      scores', llm'.value, competitors,
                                      p.value, q.value)
                       /\ req' = Request("done", idea, TRUE)
                  ELSE /\ llm' = CallPrompted(idea, no)
                       /\ result' = NoResult
                       /\ req' = Request("running", idea, TRUE)
    ELSE /\ scores' = NoScores
         /\ llm' = CallIdle
         /\ result' = NoResult
         /\ req' = Request("running", idea, TRUE)

\* the replies considered for the fetches of a detailed request: one failure
\* and the contents below
DetailedOutcomes(contents) ==
  {o \in Outcomes(contents) : o.kind \in {"ok", "error"}}

DetailedSearchContents == {c \in SearchContents : c.lines # 3}

DetailedMarketContents == {c \in MarketContents : c.marketSize # Unknown}

DetailedPainContents == {c \in PainContents : c.keywords > 0}

DetailedQualityContents ==
  {c \in QualityContents : "many players" \in c.phrases}

\* findCompetitors(idea).then(comps => analyzeCustomerPain(idea, comps))
ThenPain(idea, no, c) ==
  IF c.st = "returned"
    THEN analyzeCustomerPainBegin(idea, c.value.competitors, no)
    ELSE CallIdle

\* findCompetitors(idea).then(comps => analyzeCompetitorQuality(comps))
ThenQuality(no, c) ==
  IF c.st = "returned"
    THEN analyzeCompetitorQualityBegin(c.value.competitors, no)
    ELSE CallIdle

validateIdeaDetailed ==
  /\ req.st \in {"idle", "done"}
  /\ reqCount < MaxDetailedRequests
  /\ reqCount' = reqCount + 1
  /\ \E idea \in DetailedIdeas :
       IF ~IsValidIdea(idea)
         THEN /\ req' = Request("done", idea, TRUE)
              /\ result' = Threw("validation")
              /\ fc' = [i \in 1..3 |-> CallIdle]
              /\ ms' = CallIdle /\ pain' = CallIdle /\ qual' = CallIdle
              /\ llm' = CallIdle
              /\ scores' = NoScores
         ELSE LET no == reqCount + 1
                  c == findCompetitorsBegin(idea, no)
                  f == [i \in 1..3 |-> c]
                  m == analyzeMarketSizeBegin(idea, no)
                  p == ThenPain(idea, no, f[2])
                  q == ThenQuality(no, f[3])
              IN  /\ fc' = f
                  /\ ms' = m /\ pain' = p /\ qual' = q
                  /\ DetailedJoin(idea, no, f, m, p, q)
  /\ UNCHANGED <<competitorCache, marketCache>>
  /\ RequestFrame

\* one of the three searches of validateIdeaDetailed is answered
DetailedSearchReplied ==
  /\ req.detailed
  /\ \E i \in 1..3 :
       /\ fc[i].st = "waiting"
       /\ \E outcome \in DetailedOutcomes(DetailedSearchContents) :
            LET s == SearchReply(i, outcome)
                f == [fc EXCEPT ![i] = s.call]
                p == IF i = 2 THEN ThenPain(req.idea, reqCount, s.call)
                     ELSE pain
                q == IF i = 3 THEN ThenQuality(reqCount, s.call) ELSE qual
            IN  /\ fc' = f
                /\ competitorCache' = s.cache
                /\ pain' = p /\ qual' = q
                /\ DetailedJoin(req.idea, reqCount, f, ms, p, q)
  /\ UNCHANGED <<reqCount, marketCache, ms>>
  /\ RequestFrame

DetailedMarketReplied ==
  /\ req.detailed
  /\ ms.st = "waiting"
  /\ \E outcome \in DetailedOutcomes(DetailedMarketContents) :
       LET r == analyzeMarketSizeSettle(outcome)
           m == Settled(ms, outcome, r)
       IN  /\ ms' = m
           /\ marketCache' = IF r.store
                               THEN CacheSet(marketCache,
                                             marketCacheKey(ms.idea), r.value)
                               ELSE marketCache
           /\ DetailedJoin(req.idea, reqCount, fc, m, pain, qual)
  /\ UNCHANGED <<reqCount, competitorCache, fc, pain, qual>>
  /\ RequestFrame

DetailedPainReplied ==
  /\ req.detailed
  /\ pain.st = "waiting"
  /\ \E outcome \in DetailedOutcomes(DetailedPainContents) :
       LET r == analyzeCustomerPainSettle(outcome)
           p == Settled(pain, outcome, r)
       IN  /\ pain' = p
           /\ marketCache' = IF r.store
                               THEN CacheSet(marketCache,
                                             painCacheKey(pain.idea), r.value)
                               ELSE marketCache
           /\ DetailedJoin(req.idea, reqCount, fc, ms, p, qual)
  /\ UNCHANGED <<reqCount, competitorCache, fc, ms, qual>>
  /\ RequestFrame

DetailedQualityReplied ==
  /\ req.detailed
  /\ qual.st = "waiting"
  /\ \E outcome \in DetailedOutcomes(DetailedQualityContents) :
       LET q == Settled(qual, outcome, analyzeCompetitorQualitySettle(outcome))
       IN  /\ qual' = q
           /\ DetailedJoin(req.idea, reqCount, fc, ms, pain, q)
  /\ UNCHANGED <<reqCount, competitorCache, marketCache, fc, ms, pain>>
  /\ RequestFrame

\* the model answers makeDetailedDecision
DetailedDecisionReplied ==
  /\ req.detailed
  /\ llm.st = "waiting"
  /\ \E reply \in DetailedReplies :
       LET d == makeDetailedDecisionSettle(reply, scores)
       IN  /\ llm' = [llm EXCEPT !.st = "returned", !.outcome = reply.kind,
                                 !.value = d]
           /\ result' = validateIdeaDetailedReturn(
                          scores, d, fc[1].value.competitors, pain.value,
                          qual.value)
  /\ req' = [req EXCEPT !.st = "done"]
  /\ UNCHANGED <<reqCount, fc, competitorCache, scores, marketCache, ms, pain,
                 qual>>
  /\ RequestFrame

(***************************************************************************)
(* cli.js: main and processIdea.  An argument is a text; standard output   *)
(* is the list of the console.log calls, each marked as a JSON document or *)
(* as other text.  The command lines hold no --help, --file or config.     *)
(***************************************************************************)
FlagJson == <<"-", "-", "j", "s", "o", "n">>

FlagRoast == <<"-", "-", "r", "o", "a", "s", "t">>

FlagDetailed == <<"-", "-", "d", "e", "t", "a", "i", "l", "e", "d">>

FlagModel == <<"-", "-", "m", "o", "d", "e", "l">>

FlagFile == <<"-", "-", "f", "i", "l", "e">>

ModelName == <<"g", "p", "t", "-", "4">>

Flags == {FlagJson, FlagRoast, FlagDetailed}

\* the flags of a command line and one idea, in any order
FlagArgs ==
  {a \in UNION {[1..n -> Flags \cup {IdeaTodo}] : n \in 1..Cardinality(Flags) + 1} :
     /\ \A i, j \in DOMAIN a : a[i] = a[j] => i = j
     /\ \E i \in DOMAIN a : a[i] = IdeaTodo}

\* command lines with --model, with two bare words, and with no idea
OtherArgs ==
  {<<FlagModel, ModelName, IdeaTodo>>, <<FlagModel, ModelName, FlagJson, IdeaTodo>>,
   <<FlagModel>>, <<FlagModel, IdeaTodo>>, <<FlagModel, ModelName>>,
   <<IdeaTodo, IdeaPet>>, <<IdeaShort, FlagJson>>}

CliArgs == FlagArgs \cup OtherArgs

\* args.indexOf(token)
indexOf(args, token) ==
  IF \E i \in DOMAIN args : args[i] = token
    THEN (CHOOSE i \in DOMAIN args :
            args[i] = token /\ \A j \in 1..(i - 1) : args[j] # token) - 1
    ELSE -1

\* arg.startsWith('--')
startsWithDashes(arg) == Len(arg) >= 2 /\ arg[1] = "-" /\ arg[2] = "-"

\* the filter of main: flags and the values of --model and --file are dropped
RECURSIVE filterWords(_, _)
filterWords(args, i) ==
  IF i > Len(args) THEN <<>>
  ELSE IF startsWithDashes(args[i]) THEN filterWords(args, i + 1)
  ELSE IF i > 1 /\ args[i - 1] \in {FlagModel, FlagFile}
    THEN filterWords(args, i + 1)
  ELSE <<args[i]>> \o filterWords(args, i + 1)

\* words.join(' ')
RECURSIVE join(_)
join(words) ==
  IF Len(words) = 0 THEN <<>>
  ELSE IF Len(words) = 1 THEN words[1]
  ELSE words[1] \o <<" ">> \o join(Tail(words))

\* the idea main hands to processIdea
ideaOf(args) ==
  LET jsonIndex == indexOf(args, FlagJson)
      roastIndex == indexOf(args, FlagRoast)
      detailedIndex == indexOf(args, FlagDetailed)
      modelIndex == indexOf(args, FlagModel)
  IN  IF jsonIndex # -1 /\ jsonIndex + 1 < Len(args)
        THEN args[jsonIndex + 2]
      ELSE IF roastIndex # -1 /\ roastIndex + 1 < Len(args)
        THEN args[roastIndex + 2]
      ELSE IF detailedIndex # -1 /\ detailedIndex + 1 < Len(args)
        THEN args[detailedIndex + 2]
      ELSE IF modelIndex # -1 /\ modelIndex + 2 < Len(args)
        THEN args[modelIndex + 3]
      ELSE join(filterWords(args, 1))

NoModel == <<>>

\* the options of main
optionsOf(args) ==
  [json |-> indexOf(args, FlagJson) # -1,
   roast |-> indexOf(args, FlagRoast) # -1,
   detailed |-> indexOf(args, FlagDetailed) # -1,
   model |-> IF indexOf(args, FlagModel) # -1
                /\ indexOf(args, FlagModel) + 1 < Len(args)
               THEN args[indexOf(args, FlagModel) + 2]
               ELSE NoModel]

\* of the four names of availableModels, the one the command lines use
availableModels == {ModelName}

Line(json, text) == [json |-> json, text |-> text]

NoValidation ==
  [fn |-> "none", idea |-> <<>>, roast |-> FALSE, model |-> NoModel]

CliIdle ==
  [pc |-> "start", args |-> <<>>,
   options |-> [json |-> FALSE, roast |-> FALSE, detailed |-> FALSE,
                model |-> NoModel],
   call |-> NoValidation, stdout |-> <<>>, stderr |-> 0, exit |-> 0]

\* the catch of processIdea
processIdeaCatch(c, out) ==
  [c EXCEPT !.pc = "done",
            !.stderr = @ + 1,
            !.stdout = IF c.options.json THEN Append(out, Line(TRUE, "error"))
                       ELSE out]

\* formatOutput
formatOutput(c, out) ==
  [c EXCEPT !.pc = "done",
            !.stdout = IF c.options.json THEN Append(out, Line(TRUE, "result"))
                       ELSE Append(out, Line(FALSE, "report"))]

\* processIdea up to the await of the validation
processIdeaBegin(c, idea) ==
  LET o == c.options
      said == <<Line(FALSE, "Validating")>>
                \o (IF o.model # NoModel THEN <<Line(FALSE, "Using model")>>
                    ELSE <<>>)
      called == [c EXCEPT !.call = [fn |-> IF o.detailed
                                             THEN "validateIdeaDetailed"
                                             ELSE "validateIdea",
                                    idea |-> idea, roast |-> o.roast,
                                    model |-> o.model]]
  IN  IF ~IsValidIdea(idea)
        THEN processIdeaCatch(called, c.stdout \o said)
      ELSE [called EXCEPT
              !.pc = "validating",
              !.stdout = c.stdout \o said
                           \o (IF o.detailed
                                 THEN <<Line(FALSE, "Starting detailed analysis")>>
                                 ELSE <<>>)]

\* main up to the first await
mainBegin(c) ==
  LET args == c.args
      modelIndex == indexOf(args, FlagModel)
      parsed == [c EXCEPT !.options = optionsOf(args)]
  IN  IF modelIndex # -1 /\ modelIndex + 1 >= Len(args)
        THEN [c EXCEPT !.pc = "exit", !.exit = 1, !.stderr = @ + 1,
                       !.stdout = Append(@, Line(FALSE, "Available models")),
                       !.options = [optionsOf(args) EXCEPT !.model = NoModel]]
      ELSE IF modelIndex # -1 /\ args[modelIndex + 2] \notin availableModels
        THEN [c EXCEPT !.pc = "exit", !.exit = 1, !.stderr = @ + 1,
                       !.stdout = Append(@, Line(FALSE, "Available models")),
                       !.options = [optionsOf(args) EXCEPT !.model = NoModel]]
      ELSE IF Len(ideaOf(args)) = 0
        THEN [parsed EXCEPT !.pc = "exit", !.exit = 1, !.stderr = @ + 1,
                            !.stdout = Append(@, Line(FALSE, "help"))]
      ELSE processIdeaBegin(parsed, ideaOf(args))

\* how the awaited validation ends
ValidationOutcomes == {"returned", "threw"}

processIdeaSettle(c, outcome) ==
  IF outcome = "returned" THEN formatOutput(c, c.stdout)
  ELSE processIdeaCatch(c, c.stdout)

(***************************************************************************)
(* parseCompetitorDetails (the competitor research server).  A name is a   *)
(* text.  The content of a detail reply is what the regular expressions    *)
(* find in it: for the features, strengths and weaknesses section the      *)
(* number of its pieces longer than 5 characters (-1: no such section),    *)
(* and the words of the default patterns that occur in it.                 *)
(***************************************************************************)
\* replace(/\*\*/g, '')
RECURSIVE RemoveBold(_)
RemoveBold(s) ==
  IF Len(s) = 0 THEN s
  ELSE IF Len(s) >= 2 /\ s[1] = "*" /\ s[2] = "*"
    THEN RemoveBold(SubSeq(s, 3, Len(s)))
  ELSE <<s[1]>> \o RemoveBold(Tail(s))

\* split, filter, slice(0, limit)
SectionItems(n, limit) == [i \in 1..Min(limit, n) |-> i]

DefaultPoints(words, patterns) ==
  SelectSeq(patterns, LAMBDA w : w \in words)

parseCompetitorDetails(name, content) ==
  [name |-> RemoveBold(name),
   features |-> IF content.features >= 0
                  THEN SectionItems(content.features, 4) ELSE <<>>,
   strengths |-> IF content.strengths >= 0
                   THEN SectionItems(content.strengths, 3)
                   ELSE DefaultPoints(content.words,
                                      <<"popular", "easy", "integrate">>),
   weaknesses |-> IF content.weaknesses >= 0
                    THEN SectionItems(content.weaknesses, 3)
                    ELSE DefaultPoints(content.words,
                                       <<"expensive", "complex", "limited">>)]

NameAlphabet == {"*", "_", "A"}

DetailNames == UNION {[1..n -> NameAlphabet] : n \in 0..MaxNameLen}

DetailWords ==
  {{}, {"easy", "limited"},
   {"popular", "easy", "integrate", "expensive", "complex", "limited"}}

DetailContents ==
  [features : {-1, 2, MaxItems}, strengths : {-1, MaxItems},
   weaknesses : {-1, 1, MaxItems}, words : DetailWords]

NoCompetitor == [name |-> <<>>, features |-> <<>>, strengths |-> <<>>,
                 weaknesses |-> <<>>]

NoDetailContent ==
  [features |-> -1, strengths |-> -1, weaknesses |-> -1, words |-> {}]

DetailsIdle ==
  [pc |-> "idle", name |-> <<>>, content |-> NoDetailContent,
   out |-> NoCompetitor]

(***************************************************************************)
(* researchCompetitorsWithPerplexity.  The context carries the names the   *)
(* user supplied (context.competitors, split at the commas, trimmed, the   *)
(* empty ones dropped).  The content of a name reply is the names its      *)
(* numbered or bold entries carry, in order (listed), and the names the    *)
(* looser patterns of lines 351-374 find when those find none (loose).     *)
(***************************************************************************)
NameAc == <<"A", "c">>

NameAcLower == <<"a", "c">>

NameBo == <<"B", "o">>

NamePool ==
  <<NameAc, NameBo, <<"C", "a">>, <<"D", "u">>, <<"E", "c">>, <<"F", "l">>,
    <<"G", "i">>, <<"H", "i">>, <<"I", "o">>>>

MockNames == <<<<"M", "L">>, <<"B", "A">>, <<"I", "C">>>>

MockAdditional == <<<<"E", "S">>, <<"R", "P">>, <<"O", "S">>>>

UserNames ==
  {<<>>, <<NameBo>>, <<NameBo, NameAc, NameAcLower, NamePool[4]>>,
   SubSeq(NamePool, 1, MaxUserNames)}

NameContents ==
  {[listed |-> <<>>, loose |-> <<>>],
   [listed |-> <<>>, loose |-> <<NameBo, NameBo>>],
   [listed |-> <<NameAcLower, NameBo>>, loose |-> <<>>],
   [listed |-> <<NameAc, NameBo, NameAc>> \o SubSeq(NamePool, 3, 7),
    loose |-> <<>>]}

ResearchContents ==
  {[features |-> MaxItems, strengths |-> MaxItems, weaknesses |-> -1,
    words |-> {"limited"}]}

\* [...new Set(names)]
RECURSIVE Unique(_)
Unique(names) ==
  IF Len(names) = 0 THEN names
  ELSE LET front == Unique(SubSeq(names, 1, Len(names) - 1))
           last == names[Len(names)]
       IN  IF \E i \in 1..Len(front) : front[i] = last THEN front
           ELSE Append(front, last)

extractCompetitorNames(content) == Unique(content.listed)

\* slice taking one element more
sliceInclusive(list, from, to) == SubSeq(list, from + 1, Min(to + 1, Len(list)))

slice(list, from, to) == SubSeq(list, from + 1, Min(to, Len(list)))

getMockCompetitors(user) ==
  [i \in 1..3 |->
     [NoCompetitor EXCEPT
        !.name = IF i <= Len(user) THEN user[i] ELSE MockNames[i],
        !.strengths = <<1, 2, 3>>,
        !.weaknesses = <<1, 2, 3>>]]

NoDetail == [st |-> "none", outcome |-> "none", out |-> NoCompetitor]

ResearchIdle ==
  [st |-> "idle", mock |-> FALSE, placeholder |-> FALSE, mode |-> "none",
   user |-> <<>>, names |-> <<>>, detail |-> <<>>, order |-> <<>>,
   competitors |-> <<>>, additionalCompetitors |-> <<>>]

ToolIdle == rs = ResearchIdle /\ pd = DetailsIdle /\ cli = CliIdle

\* researchDetailsBegin returning the empty list when no name was found
researchDetailsBeginEmpty(r, competitorNames) ==
  LET topCompetitors == slice(competitorNames, 0, 3)
  IN  [r EXCEPT
         !.st = IF Len(topCompetitors) = 0 THEN "returned" ELSE "details",
         !.names = competitorNames,
         !.detail = [i \in 1..Len(topCompetitors) |->
                       [NoDetail EXCEPT !.st = "pending"]],
         !.additionalCompetitors = slice(competitorNames, 3, 6)]

\* phase 2 up to the await of Promise.all, and what follows at once when
\* there is no detail query
researchDetailsBegin(r, competitorNames) ==
  LET topCompetitors == slice(competitorNames, 0, 3)
  IN  [r EXCEPT
         !.st = IF Len(topCompetitors) = 0 THEN "threw" ELSE "details",
         !.names = competitorNames,
         !.detail = [i \in 1..Len(topCompetitors) |->
                       [NoDetail EXCEPT !.st = "pending"]],
         !.additionalCompetitors = slice(competitorNames, 3, 6)]

\* the function up to its first await
researchBegin(placeholder, user) ==
  LET r == [ResearchIdle EXCEPT !.placeholder = placeholder, !.user = user]
  IN  IF ~envPerplexity \/ placeholder
        THEN [r EXCEPT !.st = "returned", !.mock = TRUE,
                       !.competitors = getMockCompetitors(user),
                       !.additionalCompetitors = MockAdditional]
      ELSE IF Len(user) > 0
        THEN IF Len(user) < 6
               THEN [r EXCEPT !.st = "names", !.mode = "additional",
                              !.names = user]
               ELSE researchDetailsBegin(r, user)
      ELSE [r EXCEPT !.st = "names", !.mode = "discover"]

\* the name query is answered
researchNamesSettle(r, outcome) ==
  IF r.mode = "additional"
    THEN IF outcome.kind = "ok"
           THEN researchDetailsBegin(
                  r, r.user \o extractCompetitorNames(outcome.content))
         ELSE IF outcome.kind = "non2xx"
           THEN researchDetailsBegin(r, r.user)
         ELSE [r EXCEPT !.st = "threw"]
    ELSE IF outcome.kind = "ok"
           THEN LET names == extractCompetitorNames(outcome.content)
                IN  researchDetailsBegin(
                      r, IF Len(names) = 0 THEN outcome.content.loose
                         ELSE names)
         ELSE [r EXCEPT !.st = "threw"]

\* competitorResults.filter(c => c !== null)
Survivors(detail) ==
  LET ok == SelectSeq(detail, LAMBDA d : d.st = "ok")
  IN  [i \in 1..Len(ok) |-> ok[i].out]

\* the survivors in the order in which their queries completed
SurvivorsAsCompleted(detail, order) ==
  LET ok == SelectSeq(order, LAMBDA i : detail[i].st = "ok")
  IN  [i \in 1..Len(ok) |-> detail[ok[i]].out]

\* researchDetailSettle returning the survivors in completion order
researchDetailSettleAsCompleted(r, i, outcome) ==
  LET d == IF outcome.kind = "ok"
             THEN [st |-> "ok", outcome |-> "ok",
                   out |-> parseCompetitorDetails(r.names[i], outcome.content)]
             ELSE [st |-> "null", outcome |-> outcome.kind,
                   out |-> NoCompetitor]
      detail == [r.detail EXCEPT ![i] = d]
      order == Append(r.order, i)
      competitors == SurvivorsAsCompleted(detail, order)
  IN  IF \E j \in 1..Len(detail) : detail[j].st = "pending"
        THEN [r EXCEPT !.detail = detail, !.order = order]
      ELSE IF Len(competitors) = 0
        THEN [r EXCEPT !.detail = detail, !.order = order, !.st = "threw"]
      ELSE [r EXCEPT !.detail = detail, !.order = order, !.st = "returned",
                     !.competitors = competitors]

\* the detail query of the i-th top competitor is answered, and what follows
\* Promise.all when it was the last
researchDetailSettle(r, i, outcome) ==
  LET d == IF outcome.kind = "ok"
             THEN [st |-> "ok", outcome |-> "ok",
                   out |-> parseCompetitorDetails(r.names[i], outcome.content)]
             ELSE [st |-> "null", outcome |-> outcome.kind,
                   out |-> NoCompetitor]
      detail == [r.detail EXCEPT ![i] = d]
      order == Append(r.order, i)
      competitors == Survivors(detail)
  IN  IF \E j \in 1..Len(detail) : detail[j].st = "pending"
        THEN [r EXCEPT !.detail = detail, !.order = order]
      ELSE IF Len(competitors) = 0
        THEN [r EXCEPT !.detail = detail, !.order = order, !.st = "threw"]
      ELSE [r EXCEPT !.detail = detail, !.order = order, !.st = "returned",
                     !.competitors = competitors]

(***************************************************************************)
(* SpecSignals: a caller that calls the three analyses one after the       *)
(* other, with any idea, while time passes.  sigPrev is the call before    *)
(* the present one; lastFetch[key] is the last successful fetch for key:   *)
(* its result, its day and the number of the call that made it.            *)
(***************************************************************************)
CompetitorArgs == {<<>>, <<"Acme", "Bolt">>}

NoPrev ==
  [fn |-> "none", idea |-> <<>>, began |-> 0, net |-> FALSE, value |-> NoValue]

LastCall ==
  IF ms.st # "idle" THEN [fn |-> "market", call |-> ms]
  ELSE IF pain.st # "idle" THEN [fn |-> "pain", call |-> pain]
  ELSE [fn |-> "quality", call |-> qual]

Summary ==
  IF sigCalls = 0 THEN NoPrev
  ELSE [fn |-> LastCall.fn, idea |-> LastCall.call.idea,
        began |-> LastCall.call.began, net |-> LastCall.call.how = "fetch",
        value |-> LastCall.call.value]

NoCallOut == ms.st # "waiting" /\ pain.st # "waiting" /\ qual.st # "waiting"

PureIdle ==
  /\ scorePc = "idle" /\ scoreIn = NoScoreInput /\ scoreOut = NoScores
  /\ parsePc = "idle" /\ parseIn = <<>> /\ parseOut = Dec(0, 0)

SigIdle ==
  /\ now = 0
  /\ marketCache = [k \in MarketCacheKeys |-> <<>>]
  /\ ms = CallIdle /\ pain = CallIdle /\ qual = CallIdle
  /\ sigCalls = 0 /\ sigPrev = NoPrev
  /\ lastFetch = [k \in MarketCacheKeys |-> <<>>]

InitSignals ==
  /\ PureIdle
  /\ envPerplexity \in BOOLEAN
  /\ SigIdle
  /\ storedPerplexity = FALSE /\ openaiKey = FALSE /\ MainIdle
  /\ roastMode = FALSE /\ ToolIdle

BeginCommon ==
  /\ NoCallOut
  /\ sigCalls < MaxSignalCalls
  /\ sigCalls' = sigCalls + 1
  /\ sigPrev' = Summary
  /\ UNCHANGED <<envPerplexity, now, marketCache, lastFetch>>
  /\ UNCHANGED pureVars
  /\ UNCHANGED toolVars
  /\ UNCHANGED mainVars

BeginMarket ==
  /\ BeginCommon
  /\ \E idea \in SignalIdeas : ms' = analyzeMarketSizeBegin(idea, sigCalls + 1)
  /\ pain' = CallIdle /\ qual' = CallIdle

BeginPain ==
  /\ BeginCommon
  /\ \E idea \in SignalIdeas, competitors \in CompetitorArgs :
       pain' = analyzeCustomerPainBegin(idea, competitors, sigCalls + 1)
  /\ ms' = CallIdle /\ qual' = CallIdle

BeginQuality ==
  /\ BeginCommon
  /\ \E competitors \in CompetitorArgs :
       qual' = analyzeCompetitorQualityBegin(competitors, sigCalls + 1)
  /\ ms' = CallIdle /\ pain' = CallIdle

Stored(key, r, no) ==
  /\ marketCache' = IF r.store THEN CacheSet(marketCache, key, r.value)
                    ELSE marketCache
  /\ lastFetch' = IF r.store
                    THEN [lastFetch EXCEPT
                            ![key] = <<[data |-> r.value, at |-> now, by |-> no]>>]
                    ELSE lastFetch

SettleMarket ==
  /\ ms.st = "waiting"
  /\ \E outcome \in Outcomes(MarketContents) :
       LET r == analyzeMarketSizeSettle(outcome)
       IN  /\ ms' = Settled(ms, outcome, r)
           /\ Stored(marketCacheKey(ms.idea), r, ms.no)
  /\ UNCHANGED <<envPerplexity, now, pain, qual, sigCalls, sigPrev>>
  /\ UNCHANGED pureVars
  /\ UNCHANGED toolVars
  /\ UNCHANGED mainVars

SettlePain ==
  /\ pain.st = "waiting"
  /\ \E outcome \in Outcomes(PainContents) :
       LET r == analyzeCustomerPainSettle(outcome)
       IN  /\ pain' = Settled(pain, outcome, r)
           /\ Stored(painCacheKey(pain.idea), r, pain.no)
  /\ UNCHANGED <<envPerplexity, now, ms, qual, sigCalls, sigPrev>>
  /\ UNCHANGED pureVars
  /\ UNCHANGED toolVars
  /\ UNCHANGED mainVars

SettleQuality ==
  /\ qual.st = "waiting"
  /\ \E outcome \in Outcomes(QualityContents) :
       qual' = Settled(qual, outcome, analyzeCompetitorQualitySettle(outcome))
  /\ UNCHANGED <<envPerplexity, now, marketCache, ms, pain, sigCalls, sigPrev,
                 lastFetch>>
  /\ UNCHANGED pureVars
  /\ UNCHANGED toolVars
  /\ UNCHANGED mainVars

\* a day passes; a fetch is answered on the day it was issued or the next
Tick ==
  /\ \A c \in {ms, pain, qual} : c.st = "waiting" => now = c.began
  /\ \A i \in 1..3 : fc[i].st = "waiting" => now = fc[i].began
  /\ llm.st = "waiting" => now = llm.began
  /\ now < MaxDays
  /\ now' = now + 1
  /\ UNCHANGED <<envPerplexity, marketCache, ms, pain, qual, sigCalls, sigPrev,
                 lastFetch>>
  /\ UNCHANGED pureVars
  /\ UNCHANGED toolVars
  /\ UNCHANGED mainVars

NextSignals ==
  \/ BeginMarket \/ BeginPain \/ BeginQuality
  \/ SettleMarket \/ SettlePain \/ SettleQuality
  \/ Tick

SpecSignals == InitSignals /\ [][NextSignals]_vars

(***************************************************************************)
(* SpecStale: two direct calls of the cached analyses, over more days than *)
(* the longer window.                                                      *)
(***************************************************************************)
\* a day passes; a fetch is answered on the day it was issued or the next
StaleDayPasses ==
  /\ \A c \in {ms, pain} : c.st = "waiting" => now = c.began
  /\ now < MaxStaleDays
  /\ now' = now + 1
  /\ UNCHANGED <<envPerplexity, marketCache, ms, pain, qual, sigCalls, sigPrev,
                 lastFetch>>
  /\ UNCHANGED pureVars
  /\ UNCHANGED toolVars
  /\ UNCHANGED mainVars

\* a first call, or the call that follows it
StaleBeginMarket == sigPrev = NoPrev /\ BeginMarket

StaleBeginPain == sigPrev = NoPrev /\ BeginPain

NextStale ==
  \/ StaleBeginMarket \/ StaleBeginPain
  \/ SettleMarket \/ SettlePain
  \/ StaleDayPasses

SpecStale == InitSignals /\ [][NextStale]_vars

(***************************************************************************)
(* findCommonWeaknesses (the competitor research server).  A weakness is a *)
(* text; weaknessCount is the list of its keys in the order of their first *)
(* insertion, each with its count.                                         *)
(***************************************************************************)
WeakBad == <<"B", "a", "d">>

WeakBadLower == <<"b", "a", "d">>

WeakOld == <<"o", "l", "d">>

WeakBig == <<"b", "i", "g">>

WeakPoor == <<"P", "o", "o", "r">>

WeaknessLists ==
  {<<>>, <<WeakBad>>, <<WeakBad, WeakBadLower>>,
   <<WeakBadLower, WeakOld, WeakBig>>, <<WeakOld, WeakBig, WeakPoor>>,
   <<WeakPoor, WeakBad, WeakOld>>, <<WeakBig>>}

WeakCompetitors ==
  UNION {[1..n -> {[weaknesses |-> w] : w \in WeaknessLists}] :
           n \in 0..MaxWeakCompetitors}

\* the keys in the order of the forEach loops
RECURSIVE weaknessKeys(_)
weaknessKeys(competitors) ==
  IF Len(competitors) = 0 THEN <<>>
  ELSE weaknessKeys(SubSeq(competitors, 1, Len(competitors) - 1))
         \o [j \in 1..Len(competitors[Len(competitors)].weaknesses) |->
               toLowerCaseText(competitors[Len(competitors)].weaknesses[j])]

\* weaknessCount[key]
weaknessCount(competitors, key) ==
  Cardinality({j \in 1..Len(weaknessKeys(competitors)) :
                 weaknessKeys(competitors)[j] = key})

findCommonWeaknesses(competitors) ==
  LET entries == Unique(weaknessKeys(competitors))
      multiple == SelectSeq(entries,
                            LAMBDA key : weaknessCount(competitors, key) > 1)
  IN  slice(multiple, 0, 3)

InitWeak ==
  /\ PureIdle
  /\ envPerplexity = FALSE /\ SigIdle
  /\ storedPerplexity = FALSE /\ openaiKey = FALSE /\ MainIdle
  /\ roastMode = FALSE /\ rs = ResearchIdle /\ cli = CliIdle
  /\ \E competitors \in WeakCompetitors :
       pd = [pc |-> "idle", name |-> <<>>, content |-> competitors,
             out |-> <<>>]

FindWeak ==
  /\ pd.pc = "idle"
  /\ pd' = [pd EXCEPT !.pc = "done", !.out = findCommonWeaknesses(pd.content)]
  /\ UNCHANGED <<roastMode, rs, cli>>
  /\ UNCHANGED pureVars
  /\ UNCHANGED sigVars
  /\ UNCHANGED mainVars

NextWeak == FindWeak

SpecWeak == InitWeak /\ [][NextWeak]_vars

(***************************************************************************)
(* SpecScore: calculateMarketScore applied to every input of ScoreInputs.  *)
(***************************************************************************)
InitScore ==
  /\ scorePc = "ready" /\ scoreIn \in ScoreInputs /\ scoreOut = NoScores
  /\ parsePc = "idle" /\ parseIn = <<>> /\ parseOut = Dec(0, 0)
  /\ envPerplexity = FALSE /\ SigIdle
  /\ storedPerplexity = FALSE /\ openaiKey = FALSE /\ MainIdle
  /\ roastMode = FALSE /\ ToolIdle

Score ==
  /\ scorePc = "ready"
  /\ scoreOut' = calculateMarketScore(
        [marketSize |-> scoreIn.marketSize, growthRate |-> scoreIn.growthRate],
        [length |-> scoreIn.length,
         marketConcentration |-> scoreIn.marketConcentration],
        [painLevel |-> scoreIn.painLevel])
  /\ scorePc' = "done"
  /\ UNCHANGED <<scoreIn, parsePc, parseIn, parseOut>>
  /\ UNCHANGED sigVars
  /\ UNCHANGED toolVars
  /\ UNCHANGED mainVars

NextScore == Score

SpecScore == InitScore /\ [][NextScore]_vars

(***************************************************************************)
(* SpecParse: parseMarketValue applied to every text of ParseInputs.       *)
(***************************************************************************)
InitParse ==
  /\ parsePc = "ready" /\ parseIn \in ParseInputs /\ parseOut = Dec(0, 0)
  /\ scorePc = "idle" /\ scoreIn = NoScoreInput /\ scoreOut = NoScores
  /\ envPerplexity = FALSE /\ SigIdle
  /\ storedPerplexity = FALSE /\ openaiKey = FALSE /\ MainIdle
  /\ roastMode = FALSE /\ ToolIdle

Parse ==
  /\ parsePc = "ready"
  /\ parseOut' = parseMarketValue(parseIn)
  /\ parsePc' = "done"
  /\ UNCHANGED <<parseIn, scorePc, scoreIn, scoreOut>>
  /\ UNCHANGED sigVars
  /\ UNCHANGED toolVars
  /\ UNCHANGED mainVars

NextParse == Parse

SpecParse == InitParse /\ [][NextParse]_vars

(***************************************************************************)
(* SpecExtract: a market size on its way through the code: extractMarketSize*)
(* takes it out of the text of a reply (analyzeMarketSize), and            *)
(* parseMarketValue reads it (calculateMarketScore).  The texts name an    *)
(* amount in the ways replies do: a lead, a currency, a number, a unit.    *)
(***************************************************************************)
TextLeads ==
  {<<>>, WordMarket \o <<" ">>, <<"T", "A", "M", " ">>,
   WordValuedAt \o <<" ">>}

TextCurrencies ==
  {<<>>, <<"$">>, <<"U", "S", "D">>, <<"U", "S", "D", " ">>,
   <<"u", "s", "d", " ">>}

TextNumbers == {<<>>, <<"5">>, <<"1", ".", "5">>, <<".">>}

TextGaps == {<<>>, <<" ">>}

TextUnits ==
  {<<>>, <<"B">>, <<"m">>, <<"T">>, <<"k">>, <<"b">> \o Illion,
   <<"M">> \o Illion, <<"t", "r">> \o Illion}

MarketTexts ==
  {l \o c \o n \o g \o u :
     l \in TextLeads, c \in TextCurrencies, n \in TextNumbers,
     g \in TextGaps, u \in TextUnits}

InitExtract ==
  /\ parsePc = "text" /\ parseIn \in MarketTexts /\ parseOut = Dec(0, 0)
  /\ scorePc = "idle" /\ scoreIn = NoScoreInput /\ scoreOut = NoScores
  /\ envPerplexity = FALSE /\ SigIdle
  /\ storedPerplexity = FALSE /\ openaiKey = FALSE /\ MainIdle
  /\ roastMode = FALSE /\ ToolIdle

\* marketSize: extractMarketSize(content)
Extract ==
  /\ parsePc = "text"
  /\ parseIn' = extractMarketSize(parseIn)
  /\ parsePc' = "ready"
  /\ UNCHANGED <<parseOut, scorePc, scoreIn, scoreOut>>
  /\ UNCHANGED sigVars
  /\ UNCHANGED toolVars
  /\ UNCHANGED mainVars

NextExtract == Extract \/ Parse

SpecExtract == InitExtract /\ [][NextExtract]_vars

(***************************************************************************)
(* Spec: the command line without --detailed: one validateIdea after the   *)
(* other, while time passes.                                               *)
(***************************************************************************)
Init ==
  /\ PureIdle
  /\ envPerplexity \in BOOLEAN
  /\ SigIdle
  /\ storedPerplexity \in BOOLEAN
  /\ openaiKey \in BOOLEAN
  /\ MainIdle
  /\ roastMode = FALSE /\ ToolIdle

\* a day passes between or during the requests
DayPasses == now < MaxRequestDays /\ Tick

Next == validateIdea \/ SearchReplied \/ DecisionReplied \/ DayPasses

Spec == Init /\ [][Next]_vars

(***************************************************************************)
(* SpecDetailed: the command line with --detailed: validateIdeaDetailed,   *)
(* all within one day.                                                     *)
(***************************************************************************)
NextDetailed ==
  \/ validateIdeaDetailed
  \/ DetailedSearchReplied
  \/ DetailedMarketReplied \/ DetailedPainReplied \/ DetailedQualityReplied
  \/ DetailedDecisionReplied

SpecDetailed == Init /\ [][NextDetailed]_vars

(***************************************************************************)
(* SpecOnce: one run of the command line on one idea (processIdea): with   *)
(* or without --detailed, with or without --roast.                         *)
(***************************************************************************)
InitOnce ==
  /\ PureIdle
  /\ envPerplexity \in BOOLEAN
  /\ SigIdle
  /\ storedPerplexity \in BOOLEAN
  /\ openaiKey \in BOOLEAN
  /\ MainIdle
  /\ roastMode \in BOOLEAN
  /\ ToolIdle

processIdea == reqCount = 0 /\ validateIdea

processIdeaDetailed == reqCount = 0 /\ validateIdeaDetailed

NextOnce ==
  \/ processIdea
  \/ processIdeaDetailed
  \/ SearchReplied \/ DecisionReplied
  \/ DetailedSearchReplied
  \/ DetailedMarketReplied \/ DetailedPainReplied \/ DetailedQualityReplied
  \/ DetailedDecisionReplied

SpecOnce == InitOnce /\ [][NextOnce]_vars

(***************************************************************************)
(* SpecCli: one run of the command line.                                   *)
(***************************************************************************)
InitCli ==
  /\ PureIdle
  /\ envPerplexity = FALSE /\ SigIdle
  /\ storedPerplexity = FALSE /\ openaiKey = FALSE /\ MainIdle
  /\ roastMode = FALSE /\ rs = ResearchIdle /\ pd = DetailsIdle
  /\ \E args \in CliArgs : cli = [CliIdle EXCEPT !.args = args]

CliFrame ==
  /\ UNCHANGED <<roastMode, rs, pd>>
  /\ UNCHANGED pureVars
  /\ UNCHANGED sigVars
  /\ UNCHANGED mainVars

main ==
  /\ cli.pc = "start"
  /\ cli' = mainBegin(cli)
  /\ CliFrame

ValidationSettled ==
  /\ cli.pc = "validating"
  /\ \E outcome \in ValidationOutcomes : cli' = processIdeaSettle(cli, outcome)
  /\ CliFrame

NextCli == main \/ ValidationSettled

SpecCli == InitCli /\ [][NextCli]_vars

(***************************************************************************)
(* Properties of the scoring engine (SpecScore) and of parseMarketValue    *)
(* (SpecParse).                                                            *)
(***************************************************************************)

\* C1: every result of calculateMarketScore has overall in [0,10] (0..100 in
\* tenths) and marketOpportunity, competition, entryFeasibility in 0..10.
C1_ScoresInRange ==
  scorePc = "done" =>
    /\ scoreOut.overall10 \in 0..(10 * MaxScore)
    /\ scoreOut.marketOpportunity \in 0..MaxScore
    /\ scoreOut.competition \in 0..MaxScore
    /\ scoreOut.entryFeasibility \in 0..MaxScore

\* a result in which both caps acted: top market tier raised by a growth rate
\* above 30%, top pain level in a fragmented market
C1_Witness ==
  /\ scorePc = "done"
  /\ scoreIn.marketSize = <<"$", "2", "T">>
  /\ scoreIn.growthRate = <<"3", "1", "%">>
  /\ scoreIn.painLevel = MaxScore
  /\ scoreIn.marketConcentration = "Fragmented"
  /\ scoreOut.marketOpportunity = MaxScore
  /\ scoreOut.entryFeasibility = MaxScore

\* C2: the verdict agrees with the reported overall score: YES exactly when
\* overall >= 7, MAYBE exactly when 4 <= overall < 7, NO exactly when
\* overall < 4.
C2_VerdictAgreesWithOverall ==
  scorePc = "done" =>
    /\ scoreOut.verdict = "YES" <=> scoreOut.overall10 >= 70
    /\ scoreOut.verdict = "MAYBE" <=>
         (scoreOut.overall10 >= 40 /\ scoreOut.overall10 < 70)
    /\ scoreOut.verdict = "NO" <=> scoreOut.overall10 < 40

\* C5: the competition sub-score is a function of the competitor count alone:
\* 3 for 0, 5 for 1..2, 8 for 3..5, 6 for 6..10, 3 above 10.
C5_CompetitionByCount ==
  scorePc = "done" =>
    scoreOut.competition =
      (CASE scoreIn.length = 0 -> 3
         [] scoreIn.length \in 1..2 -> 5
         [] scoreIn.length \in 3..5 -> 8
         [] scoreIn.length \in 6..10 -> 6
         [] OTHER -> 3)

\* fifteen competitors scored 3, with inputs that are not the neutral ones
C5_Witness ==
  /\ scorePc = "done"
  /\ scoreIn.length = 15
  /\ scoreIn.marketSize = <<"$", "1", ".", "5", "B">>
  /\ scoreIn.painLevel = 9
  /\ scoreOut.competition = 3

\* a decimal number as text: digits and at most one point, at least one digit
IsNumberText(s, a, b) ==
  /\ a <= b
  /\ \A i \in a..b : s[i] \in DigitDot
  /\ Cardinality({i \in a..b : s[i] = "."}) <= 1
  /\ \E i \in a..b : s[i] \in Digits

\* s[i..k] is "$" number, white space, unit
IsMoneyText(s, i, j, k) ==
  /\ s[i] = "$"
  /\ IsNumberText(s, i + 1, j)
  /\ \A x \in (j + 1)..(k - 1) : s[x] \in Spaces
  /\ s[k] \in Units

UnitExponent(c) ==
  IF toLowerCase(c) = "t" THEN 6 ELSE IF toLowerCase(c) = "b" THEN 3 ELSE 0

\* C6: "$<number><unit>" is normalized to millions (T: 10^6, B: 10^3, M: 1, in
\* either case), a text without that shape gives 0, "$1.5B" gives 1500 and
\* "$2T" gives 2000000.
C6_ParseMarketValueNormalizes ==
  parsePc = "done" =>
    /\ \A j \in 2..Len(parseIn) :
         IsMoneyText(parseIn, 1, j, Len(parseIn)) =>
           parseOut = DecTimesPow10(parseFloat(SubSeq(parseIn, 2, j)),
                                    UnitExponent(parseIn[Len(parseIn)]))
    /\ (~\E i, j, k \in 1..Len(parseIn) : IsMoneyText(parseIn, i, j, k)) =>
         parseOut = Dec(0, 0)
    /\ parseIn = <<"$", "1", ".", "5", "B">> => parseOut = Dec(1500, 0)
    /\ parseIn = <<"$", "2", "T">> => parseOut = Dec(2000000, 0)

(***************************************************************************)
(* Properties of the market signal analyses (SpecSignals).                 *)
(***************************************************************************)
SignalCalls ==
  {[fn |-> "market", call |-> ms, window |-> MarketWindow],
   [fn |-> "pain", call |-> pain, window |-> PainWindow]}

SignalKey(c) ==
  IF c.fn = "market" THEN marketCacheKey(c.call.idea)
  ELSE painCacheKey(c.call.idea)

C8_FailuresGiveDefaults ==
  /\ \A c \in {ms, pain, qual} : c.st # "threw"
  /\ (ms.st = "returned" /\ (ms.how = "nokey" \/ ms.outcome \in FailureKinds))
       => /\ ms.value.marketSize = Unknown
          /\ ms.value.growthRate = Unknown
          /\ ms.value.funding = "Unknown"
          /\ ms.value.confidence = "low"
  /\ (pain.st = "returned"
        /\ (pain.how = "nokey" \/ pain.outcome \in FailureKinds))
       => /\ pain.value.painLevel = 5
          /\ pain.value.unmetNeeds = <<>>
  /\ (qual.st = "returned"
        /\ (qual.how = "nokey" \/ qual.outcome \in FailureKinds))
       => /\ qual.value.satisfaction = 5
          /\ qual.value.marketConcentration = "Unknown"

\* a market call that got a non-2xx answer while a fresh result of an earlier
\* fetch was not available, and returned the default
C8_Witness ==
  /\ ms.st = "returned" /\ ms.outcome = "non2xx"
  /\ ms.value.confidence = "low"
  /\ sigPrev.fn = "pain" /\ sigPrev.net

(***************************************************************************)
(* SpecResearch: one call of researchCompetitorsWithPerplexity.            *)
(***************************************************************************)
InitResearch ==
  /\ PureIdle
  /\ envPerplexity \in BOOLEAN
  /\ SigIdle
  /\ storedPerplexity = FALSE /\ openaiKey = FALSE /\ MainIdle
  /\ roastMode = FALSE /\ ToolIdle

ResearchFrame ==
  /\ UNCHANGED <<roastMode, pd, cli>>
  /\ UNCHANGED pureVars
  /\ UNCHANGED sigVars
  /\ UNCHANGED mainVars

ResearchBegin ==
  /\ rs.st = "idle"
  /\ \E placeholder \in BOOLEAN, user \in UserNames :
       rs' = researchBegin(placeholder, user)
  /\ ResearchFrame

NamesReplied ==
  /\ rs.st = "names"
  /\ \E outcome \in Outcomes(NameContents) :
       rs' = researchNamesSettle(rs, outcome)
  /\ ResearchFrame

DetailReplied ==
  /\ rs.st = "details"
  /\ \E i \in 1..Len(rs.detail) :
       /\ rs.detail[i].st = "pending"
       /\ \E outcome \in Outcomes(ResearchContents) :
            rs' = researchDetailSettle(rs, i, outcome)
  /\ ResearchFrame

NextResearch == ResearchBegin \/ NamesReplied \/ DetailReplied

SpecResearch == InitResearch /\ [][NextResearch]_vars

(***************************************************************************)
(* SpecDetails: parseCompetitorDetails applied to any name and content.    *)
(***************************************************************************)
InitDetails ==
  /\ PureIdle
  /\ envPerplexity = FALSE /\ SigIdle
  /\ storedPerplexity = FALSE /\ openaiKey = FALSE /\ MainIdle
  /\ roastMode = FALSE /\ rs = ResearchIdle /\ cli = CliIdle
  /\ \E name \in DetailNames, content \in DetailContents :
       pd = [DetailsIdle EXCEPT !.name = name, !.content = content]

ParseDetails ==
  /\ pd.pc = "idle"
  /\ pd' = [pd EXCEPT !.pc = "done",
                      !.out = parseCompetitorDetails(pd.name, pd.content)]
  /\ UNCHANGED <<roastMode, rs, cli>>
  /\ UNCHANGED pureVars
  /\ UNCHANGED sigVars
  /\ UNCHANGED mainVars

NextDetails == ParseDetails

SpecDetails == InitDetails /\ [][NextDetails]_vars

(***************************************************************************)
(* Claims about the validation flows.                                      *)
(***************************************************************************)
DetailedReturned == req.detailed /\ result.st = "returned"

\* C3: whatever the outcome of the call of the model in the detailed path
\* (no OpenAI key, failed call, unparseable reply, JSON with or without a
\* verdict), the decision returned by validateIdeaDetailed is the verdict that
\* calculateMarketScore computed beforehand, the scores returned are those
\* scores, and the reply only supplies the reasons.
C3_DecisionIsScoresVerdict ==
  DetailedReturned =>
    /\ result.decision = scores.verdict
    /\ result.decision \in {"YES", "MAYBE", "NO"}
    /\ result.detail.scores = scores
    /\ result.reasons = llm.value.reasons

\* a result whose reply carried a verdict that is not the one of the scores
C3_Witness ==
  /\ DetailedReturned
  /\ llm.outcome = "json"
  /\ llm.value.verdict \in {"YES", "NO"}
  /\ llm.value.verdict # scores.verdict
  /\ result.decision = scores.verdict

\* C4: in every result of validateIdeaDetailed the entry feasibility is the
\* reported pain level lowered by 3 (floor 1) when the reported concentration
\* is "Highly concentrated", raised by 2 (cap 10) when it is "Fragmented", and
\* the pain level itself otherwise.
C4_EntryFeasibilityFollowsConcentration ==
  DetailedReturned =>
    LET level == result.detail.painLevel
        concentration == result.detail.concentration
    IN  result.detail.scores.entryFeasibility =
          IF concentration = "Highly concentrated" THEN Max(1, level - 3)
          ELSE IF concentration = "Fragmented" THEN Min(10, level + 2)
          ELSE level

\* C9: whenever findCompetitors treats the search key as configured (stored
\* or in the environment), none of analyzeMarketSize, analyzeCustomerPain and
\* analyzeCompetitorQuality returns its no-credential default.
C9_AnalysesSeeTheSameKey ==
  (req.detailed /\ getPerplexityKey) =>
    /\ ms.how # "nokey"
    /\ pain.how # "nokey"
    /\ qual.how # "nokey"

\* C10: on every path (no credential, cache hit, successful search, failed
\* search) findCompetitors returns at most 5 competitors, and so does the
\* result of validateIdea.
C10_AtMostFiveCompetitors ==
  /\ \A i \in 1..3 :
       fc[i].st = "returned" => Len(fc[i].value.competitors) <= 5
  /\ \A k \in CompetitorCacheKeys :
       competitorCache[k] # <<>> => Len(competitorCache[k][1].data) <= 5
  /\ result.st = "returned" => Len(result.competitors) <= 5

\* a cache hit that returns the five competitors kept of a longer reply
C10_Witness ==
  /\ fc[1].st = "returned"
  /\ fc[1].how = "cache"
  /\ Len(fc[1].value.competitors) = 5
  /\ MaxReplyLines > 5
  /\ result.st = "returned"
  /\ Len(result.competitors) = 5

SimpleDecided == ~req.detailed /\ llm.st = "returned"

C16_DecisionIsAVerdict ==
  (~req.detailed /\ result.st = "returned") =>
    result.decision \in {"YES", "NO", "MAYBE", "UNCLEAR"}

SimpleAnswered == SimpleDecided /\ llm.how = "fetch"

\* C17 as stated: with an OpenAI credential makeDecision does not throw; a
\* reply that is no JSON after the fences are removed gives YES when it
\* contains "yes" in quotes and NO otherwise; a failed call gives UNCLEAR.
C17_SniffedByQuotedYes ==
  SimpleAnswered =>
    /\ llm.outcome = "fail" => llm.value.verdict = "UNCLEAR"
    /\ llm.outcome = "prose" =>
         llm.value.verdict = IF llm.reply.hasYes THEN "YES" ELSE "NO"

\* C17 as amended: with an OpenAI credential makeDecision does not throw; a
\* reply that is no JSON after the fences are removed gives YES when it
\* contains "yes" in quotes or the text verdict": "yes (both without regard
\* to case) and NO otherwise; a failed call, and a reply without text, give
\* UNCLEAR.
C17_SniffedByEitherPattern ==
  SimpleAnswered =>
    /\ llm.outcome \in {"fail", "nocontent"} =>
         (llm.value.verdict = "UNCLEAR" /\ ~llm.value.null)
    /\ llm.outcome = "prose" =>
         /\ ~llm.value.null
         /\ llm.value.verdict =
              IF llm.reply.hasYes \/ llm.reply.hasVerdictYes THEN "YES"
              ELSE "NO"
    /\ (llm.outcome = "json" /\ llm.reply.fence # "none") =>
         llm.value.verdict = llm.reply.verdict

\* a reply that is no JSON and holds verdict": "yes but no "yes" in quotes
C17_Witness ==
  /\ SimpleAnswered
  /\ llm.outcome = "prose"
  /\ llm.reply.hasVerdictYes
  /\ ~llm.reply.hasYes
  /\ result.decision = "YES"

NothingCalled ==
  /\ \A i \in 1..3 : fc[i] = CallIdle
  /\ ms = CallIdle /\ pain = CallIdle /\ qual = CallIdle
  /\ llm = CallIdle
  /\ scores = NoScores

CachesUntouched ==
  /\ competitorCache = [k \in CompetitorCacheKeys |-> <<>>]
  /\ marketCache = [k \in MarketCacheKeys |-> <<>>]

\* C18: validateIdea and validateIdeaDetailed answer an idea that is missing
\* or shorter than 10 characters once trimmed with a validation error, and
\* by then they have issued no call and have neither read nor written a cache.
C18_RejectedBeforeAnyCall ==
  (req.st # "idle" /\ Len(trim(req.idea)) < 10) =>
    /\ req.st = "done"
    /\ result = Threw("validation")
    /\ NothingCalled
    /\ CachesUntouched

\* validateIdeaDetailed has rejected an idea of 11 characters, 8 once trimmed
C18_Witness ==
  /\ req.st = "done"
  /\ req.detailed
  /\ req.idea = IdeaShort
  /\ Len(req.idea) >= 10
  /\ result = Threw("validation")

ValidDone == req.st = "done" /\ IsValidIdea(req.idea)

C20_RoastLeavesScores ==
  /\ DetailedReturned =>
       LET sc == calculateMarketScore(
                   ms.value, AsCompetitorData(fc[1].value.competitors),
                   pain.value)
       IN  /\ result.detail.scores = sc
           /\ result.detail.scores.overall10 = sc.overall10
           /\ result.detail.scores.marketOpportunity = sc.marketOpportunity
           /\ result.detail.scores.competition = sc.competition
           /\ result.detail.scores.entryFeasibility = sc.entryFeasibility
           /\ result.decision = sc.verdict
  /\ (req.detailed /\ llm.how = "fetch") =>
       llm.tone = IF roastMode THEN "sarcastic" ELSE "analytical"

\* a run with --roast has asked the model in the sarcastic tone and returned
\* a verdict other than NO
C20_Witness ==
  /\ DetailedReturned
  /\ roastMode
  /\ llm.how = "fetch"
  /\ llm.tone = "sarcastic"
  /\ llm.outcome = "json"
  /\ result.decision \in {"YES", "MAYBE"}

\* a validateIdea with a valid idea begins, with a Perplexity credential
SearchBegins ==
  /\ reqCount' = reqCount + 1
  /\ ~req'.detailed
  /\ IsValidIdea(req'.idea)
  /\ getPerplexityKey

C27_OneCompetitorList ==
  DetailedReturned =>
    /\ fc[2].value = fc[1].value
    /\ fc[3].value = fc[1].value
    /\ result.competitors = fc[1].value.competitors
    /\ Cardinality({i \in 1..3 : fc[i].how = "fetch"}) <= 1

\* the call settles in this step, and not with a result fetched
SettlesWithout(before, after) ==
  /\ before.st # "returned"
  /\ after.st = "returned"
  /\ (after.how = "nokey" \/ (after.how = "fetch" /\ after.outcome # "ok"))

\* the call settles in this step with a result fetched
SettlesFetched(before, after) ==
  /\ before.st = "waiting"
  /\ after.st = "returned"
  /\ after.outcome = "ok"

\* C28: a call of findCompetitors, analyzeMarketSize or analyzeCustomerPain
\* that fails or finds no credential leaves the caches as they are: its
\* fallback or default is not written, no entry changes, and a cache changes
\* only in a step in which a fetch succeeds, by the entry of that fetch.
C28_FailureLeavesCaches ==
  [][/\ (\E i \in 1..3 : SettlesWithout(fc[i], fc'[i])) =>
          competitorCache' = competitorCache
     /\ (SettlesWithout(ms, ms') \/ SettlesWithout(pain, pain')) =>
          marketCache' = marketCache
     /\ competitorCache' # competitorCache =>
          \E i \in 1..3 :
            /\ SettlesFetched(fc[i], fc'[i])
            /\ competitorCache'
                 = [competitorCache EXCEPT
                      ![competitorCacheKey(fc[i].idea)] =
                         <<[data |-> fc'[i].value.competitors,
                            timestamp |-> now]>>]
     /\ marketCache' # marketCache =>
          \/ /\ SettlesFetched(ms, ms')
             /\ marketCache'
                  = [marketCache EXCEPT
                       ![marketCacheKey(ms.idea)] =
                          <<[data |-> ms'.value, timestamp |-> now]>>]
          \/ /\ SettlesFetched(pain, pain')
             /\ marketCache'
                  = [marketCache EXCEPT
                       ![painCacheKey(pain.idea)] =
                          <<[data |-> pain'.value, timestamp |-> now]>>]]_vars

\* analyzeCustomerPain has failed beside the cached market size, and a search
\* has failed beside the cached list: the entries are those of the fetches
\* that succeeded
C28_Witness ==
  /\ req.detailed
  /\ pain.st = "returned" /\ pain.outcome = "error"
  /\ pain.value = PainDefault
  /\ marketCache[painCacheKey(pain.idea)] = <<>>
  /\ ms.st = "returned" /\ ms.outcome = "ok"
  /\ marketCache[marketCacheKey(ms.idea)]
       = <<[data |-> ms.value, timestamp |-> now]>>
  /\ fc[1].st = "returned" /\ fc[1].outcome = "ok"
  /\ fc[3].st = "returned" /\ fc[3].outcome = "error"
  /\ fc[3].value = Found(FallbackCompetitors)
  /\ competitorCache[competitorCacheKey(req.idea)]
       = <<[data |-> fc[1].value.competitors, timestamp |-> now]>>

C30_ExtractedSizeIsParsed ==
  (parsePc \in {"ready", "done"} /\ parseIn # Unknown)
    => \E i \in 1..Len(parseIn) : MarketMatchAt(parseIn, i)

\* the names a research returns: those of the detailed competitors, then the
\* additional ones
ReturnedNames ==
  [i \in 1..Len(rs.competitors) |-> rs.competitors[i].name]
    \o rs.additionalCompetitors

\* C24: the names of a live research are deduplicated without regard to case
\* before they are split: no two names among the detailed and the additional
\* competitors returned are equal ignoring case.
C24_NamesDistinctIgnoringCase ==
  (rs.st = "returned" /\ ~rs.mock) =>
    \A i, j \in 1..Len(ReturnedNames) :
      toLowerCaseText(ReturnedNames[i]) = toLowerCaseText(ReturnedNames[j])
        => i = j

(***************************************************************************)
(* Claims about the ageing of the market-signal cache (SpecStale).         *)
(***************************************************************************)
\* the entry for the idea of call c is younger than the window of c
YoungEntry(c, idea) ==
  LET key == IF c.fn = "market" THEN marketCacheKey(idea)
             ELSE painCacheKey(idea)
  IN  /\ marketCache[key] # <<>>
      /\ now - marketCache[key][1].timestamp < c.window

\* the call of analysis fn before the step and after it
CallNow(fn) == IF fn = "market" THEN ms ELSE pain

CallNext(fn) == IF fn = "market" THEN ms' ELSE pain'

\* C25: a call of analyzeMarketSize or analyzeCustomerPain is answered from
\* the cache exactly when the entry for its idea is younger than the window
\* (7 days, 3 days); when the entry is as old as the window or older and
\* there is a credential, the call issues a network call; and a fetch that
\* succeeds replaces the entry as a whole, data and timestamp, with its
\* result and the time of its completion, leaving the other entries alone.
C25_StaleEntryIsRefetched ==
  [][\A c \in SignalCalls :
       /\ (sigCalls' = sigCalls + 1 /\ CallNext(c.fn).st # "idle") =>
            /\ marketCache' = marketCache
            /\ (CallNext(c.fn).how = "cache")
                 = YoungEntry(c, CallNext(c.fn).idea)
            /\ YoungEntry(c, CallNext(c.fn).idea) =>
                 /\ CallNext(c.fn).st = "returned"
                 /\ CallNext(c.fn).value
                      = marketCache[SignalKey([c EXCEPT !.call = CallNext(c.fn)])][1].data
            /\ (~YoungEntry(c, CallNext(c.fn).idea) /\ envPerplexity) =>
                 (CallNext(c.fn).st = "waiting" /\ CallNext(c.fn).how = "fetch")
       /\ (CallNow(c.fn).st = "waiting" /\ CallNext(c.fn).st = "returned"
             /\ CallNext(c.fn).outcome = "ok") =>
            /\ marketCache'[SignalKey(c)]
                 = <<[data |-> CallNext(c.fn).value, timestamp |-> now]>>
            /\ \A k \in MarketCacheKeys \ {SignalKey(c)} :
                 marketCache'[k] = marketCache[k]]_vars

\* the market size fetched again seven days after a successful fetch, and
\* the entry replaced by the new result
C25_Witness ==
  /\ ms.st = "returned" /\ ms.how = "fetch" /\ ms.outcome = "ok"
  /\ sigPrev.fn = "market" /\ sigPrev.idea = ms.idea
  /\ sigPrev.net /\ sigPrev.value # MarketDefault
  /\ sigPrev.value # ms.value
  /\ ms.began - sigPrev.began >= MarketWindow
  /\ marketCache[marketCacheKey(ms.idea)]
       = <<[data |-> ms.value, timestamp |-> now]>>

\* the competitors of the input that list the phrase, without regard to case
ListedBy(phrase) ==
  {i \in 1..Len(pd.content) :
     \E j \in 1..Len(pd.content[i].weaknesses) :
       toLowerCaseText(pd.content[i].weaknesses[j]) = phrase}

\* C26: findCommonWeaknesses returns at most 3 phrases, and each of them is in
\* the weakness lists of more than one competitor (compared as a whole
\* phrase, without regard to case).
C26_CommonToSeveralCompetitors ==
  pd.pc = "done" =>
    /\ Len(pd.out) <= 3
    /\ \A k \in 1..Len(pd.out) : Cardinality(ListedBy(pd.out[k])) > 1

(***************************************************************************)
(* Claims about the command line (SpecCli).                                *)
(***************************************************************************)

\* C22: with --json and one idea, what the run has written to standard
\* output when it ends is exactly one JSON document (the result or an error
\* object) and nothing else.
C22_StdoutIsOneJsonDocument ==
  (cli.pc = "done" /\ cli.options.json) =>
    /\ Len(cli.stdout) = 1
    /\ cli.stdout[1].json

\* C23: for a command line made of some of --json, --roast, --detailed in any
\* order and one idea argument, the validation is called with that idea
\* argument, never with a flag, and with every given flag enabled.
C23_IdeaArgumentIsValidated ==
  (cli.args \in FlagArgs /\ cli.pc # "start") =>
    /\ cli.call.fn # "none"
    /\ cli.call.idea = IdeaTodo
    /\ ~startsWithDashes(cli.call.idea)
    /\ cli.options.json = (\E i \in DOMAIN cli.args : cli.args[i] = FlagJson)
    /\ cli.call.roast = (\E i \in DOMAIN cli.args : cli.args[i] = FlagRoast)
    /\ (cli.call.fn = "validateIdeaDetailed")
         = (\E i \in DOMAIN cli.args : cli.args[i] = FlagDetailed)

(***************************************************************************)
(* Claims about the competitor research.                                   *)
(***************************************************************************)
\* C11: whenever researchCompetitorsWithPerplexity returns, on the mock path
\* or the live one, with or without names of the user, its list has at most 3
\* competitors and additionalCompetitors has at most 3 names.
C11_AtMostThreeAndThree ==
  rs.st = "returned" =>
    /\ Len(rs.competitors) <= 3
    /\ Len(rs.additionalCompetitors) <= 3

\* a live research of more than six names returns three and three
C11_Witness ==
  /\ rs.st = "returned"
  /\ ~rs.mock
  /\ Len(rs.names) > 6
  /\ Len(rs.competitors) = 3
  /\ Len(rs.additionalCompetitors) = 3

ResearchOk == {i \in 1..Len(rs.detail) : rs.detail[i].st = "ok"}

ResearchRank(i) == Cardinality({j \in ResearchOk : j <= i})

ResearchSettled == \A i \in 1..Len(rs.detail) : rs.detail[i].st # "pending"

\* C12: the detail queries are independent: a query that fails (rejected,
\* non-2xx, exception while parsing) removes its own competitor only, every
\* competitor whose query succeeded is returned, and the competitors returned
\* are in the order of the names, whatever the order of completion.
C12_SurvivorsInNameOrder ==
  /\ \A i \in 1..Len(rs.detail) :
       rs.detail[i].st # "pending" =>
         (rs.detail[i].st = "ok" <=> rs.detail[i].outcome = "ok")
  /\ (rs.st \in {"details", "returned", "threw"} /\ Len(rs.detail) > 0
        /\ ResearchSettled /\ ResearchOk # {})
       => /\ rs.st = "returned"
          /\ Len(rs.competitors) = Cardinality(ResearchOk)
          /\ \A i \in ResearchOk :
               rs.competitors[ResearchRank(i)].name = RemoveBold(rs.names[i])

\* the third query completed first, one query failed, two competitors are
\* returned
C12_Witness ==
  /\ rs.st = "returned"
  /\ Len(rs.order) = 3
  /\ rs.order[1] = 3
  /\ rs.order[3] = 1
  /\ Cardinality(ResearchOk) = 2
  /\ rs.detail[2].st = "null"
  /\ rs.competitors[1].name # rs.competitors[2].name

ResearchLive == rs.st # "idle" /\ envPerplexity /\ ~rs.placeholder

\* C13: with a credential, when no competitor survives the detail round (all
\* detail queries fail, or no name was found) the research throws; it never
\* returns an empty list.
C13_NoEmptySuccess ==
  ResearchLive =>
    /\ rs.st = "returned" => Len(rs.competitors) > 0
    /\ (rs.st \in {"details", "returned", "threw"} /\ ResearchSettled
          /\ ResearchOk = {})
         => rs.st = "threw"

\* all three detail queries failed and the research threw
C13_Witness ==
  /\ ResearchLive
  /\ rs.st = "threw"
  /\ Len(rs.detail) = 3
  /\ ResearchSettled
  /\ ResearchOk = {}

\* C14: every competitor parseCompetitorDetails returns, for any name and any
\* content, has at most 3 strengths, at most 3 weaknesses, at most 4 features
\* and a name without emphasis markup (asterisk, underscore).
C14_DetailsBounded ==
  pd.pc = "done" =>
    /\ Len(pd.out.strengths) <= 3
    /\ Len(pd.out.weaknesses) <= 3
    /\ Len(pd.out.features) <= 4
    /\ \A i \in 1..Len(pd.out.name) : pd.out.name[i] \notin {"*", "_"}

====
